---------------------------- MODULE Spec2Model ----------------------------
(***************************************************************************)
(* A model of the delay-based receive-side bandwidth estimator             *)
(* (webrtc::DelayBasedBwe, modules/congestion_controller/                  *)
(* delay_based_bwe.cc) and of the collaborators it drives.                 *)
(*                                                                         *)
(* Times are milliseconds, bitrates bits per second.  The float means of a *)
(* probe cluster are kept as exact fractions sum/count.                    *)
(***************************************************************************)
EXTENDS Integers, Sequences, FiniteSets, TLC

(***************************************************************************)
(* Program constants                                                       *)
(***************************************************************************)
kTimestampGroupLengthMs == 5
kAbsSendTimeFraction == 18
kAbsSendTimeInterArrivalUpshift == 8
kInterArrivalShift == kAbsSendTimeFraction + kAbsSendTimeInterArrivalUpshift
kInitialProbingIntervalMs == 2000
kMinClusterSize == 4
kMaxProbePackets == 15
kExpectedNumberOfProbes == 3
\* PacketInfo::kNotAProbe, the cluster id of a packet that is no probe.
kNotAProbe == -1
\* PacedSender::kMinProbePacketSize, in bytes.
kMinProbePacketSize == 200
\* The SSRC liveness timeout.
kStreamTimeOutMs == 2000
\* The rate counter's window.
kBitrateWindowMs == 1000

(***************************************************************************)
(* Arithmetic helpers                                                      *)
(***************************************************************************)
Min(a, b) == IF a < b THEN a ELSE b
Max(a, b) == IF a > b THEN a ELSE b
Pow2(n) == 2 ^ n

\* C++ division of integers: the quotient truncated toward zero (b # 0).
TruncDiv(a, b) ==
  IF (a >= 0 /\ b > 0) \/ (a <= 0 /\ b < 0)
    THEN (IF a >= 0 THEN a ELSE -a) \div (IF b >= 0 THEN b ELSE -b)
    ELSE -((IF a >= 0 THEN a ELSE -a) \div (IF b >= 0 THEN b ELSE -b))

\* The checker's integers are 32 bits wide, so a product that would pass
\* 2^31 is split: x * 1000 / 2^18 = (x / 2^18) * 1000 + (x % 2^18) * 1000 / 2^18.
TicksToMs(ticks_24) ==
  (ticks_24 \div Pow2(kAbsSendTimeFraction)) * 1000
    + ((ticks_24 % Pow2(kAbsSendTimeFraction)) * 1000)
        \div Pow2(kAbsSendTimeFraction)

\* uint32_t ConvertMsTo24Bits(int64_t time_ms), for time_ms >= 0:
\* (((time_ms << 18) + 500) / 1000) & 0x00FFFFFF, the product split at the
\* whole seconds of time_ms.
ConvertMsTo24Bits(time_ms) ==
  (((time_ms \div 1000) % Pow2(24 - kAbsSendTimeFraction))
      * Pow2(kAbsSendTimeFraction)
    + (((time_ms % 1000) * Pow2(kAbsSendTimeFraction)) + 500) \div 1000)
  % Pow2(24)

\* timestamp = send_time_24bits << kAbsSendTimeInterArrivalUpshift (uint32_t).
\* The low 8 bits of every timestamp are zero: the model keeps a timestamp as
\* its upper 24 bits, and uint32_t arithmetic on timestamps is arithmetic
\* modulo 2^24 on them.
Timestamp(send_time_24bits) == send_time_24bits % Pow2(24)

\* send_time_ms = static_cast<int64_t>(timestamp) * kTimestampToMs, truncated.
SendTimeMs(timestamp) == TicksToMs(timestamp)

(***************************************************************************)
(* Probe clusters                                                          *)
(***************************************************************************)
\* Probe(send_time_ms, recv_time_ms, payload_size, cluster_id)
Probe(send_time_ms, recv_time_ms, payload_size, cluster_id) ==
  [send_time_ms |-> send_time_ms, recv_time_ms |-> recv_time_ms,
   payload_size |-> payload_size, cluster_id |-> cluster_id]

\* Cluster(): send_mean_ms and recv_mean_ms are the fractions send_sum/count and
\* recv_sum/count once the cluster has been added.
Cluster ==
  [send_sum |-> 0, recv_sum |-> 0, mean_size |-> 0, count |-> 0,
   num_above_min_delta |-> 0]

\* AddCluster: the means are divided by count (the two float means stay
\* fractions over count, mean_size is an integer division).
AddCluster(clusters, cluster) ==
  Append(clusters, [cluster EXCEPT !.mean_size = TruncDiv(@, cluster.count)])

\* One iteration of the loop of ComputeClusters over the probe `it`.
ComputeClustersStep(acc, it) ==
  LET last0 == IF acc.last_probe_cluster_id = -1
                 THEN it.cluster_id ELSE acc.last_probe_cluster_id
  IN IF acc.prev_send_time >= 0
       THEN
         LET send_delta_ms == it.send_time_ms - acc.prev_send_time
             recv_delta_ms == it.recv_time_ms - acc.prev_recv_time
             cur1 == IF send_delta_ms >= 1 /\ recv_delta_ms >= 1
                       THEN [acc.current EXCEPT !.num_above_min_delta = @ + 1]
                       ELSE acc.current
             changed == it.cluster_id # last0
             clusters1 == IF changed /\ cur1.count >= kMinClusterSize
                            THEN AddCluster(acc.clusters, cur1)
                            ELSE acc.clusters
             cur2 == IF changed THEN Cluster ELSE cur1
             cur3 == [cur2 EXCEPT !.send_sum = @ + send_delta_ms,
                                  !.recv_sum = @ + recv_delta_ms,
                                  !.mean_size = @ + it.payload_size,
                                  !.count = @ + 1]
         IN [clusters |-> clusters1, current |-> cur3,
             prev_send_time |-> it.send_time_ms,
             prev_recv_time |-> it.recv_time_ms,
             last_probe_cluster_id |-> it.cluster_id]
       ELSE [acc EXCEPT !.prev_send_time = it.send_time_ms,
                        !.prev_recv_time = it.recv_time_ms,
                        !.last_probe_cluster_id = last0]

RECURSIVE ComputeClustersLoop(_, _, _)
ComputeClustersLoop(probes, i, acc) ==
  IF i > Len(probes) THEN acc
  ELSE ComputeClustersLoop(probes, i + 1, ComputeClustersStep(acc, probes[i]))

\* The end of ComputeClusters (lines 116-117): the last cluster is added if it
\* is large enough.
LastCluster(acc) ==
  IF acc.current.count >= kMinClusterSize
    THEN AddCluster(acc.clusters, acc.current)
    ELSE acc.clusters

\* ComputeClusters: the list of clusters of the probe list.
ComputeClusters(probes) ==
  LastCluster(ComputeClustersLoop(probes, 1,
                [clusters |-> <<>>, current |-> Cluster, prev_send_time |-> -1,
                 prev_recv_time |-> -1, last_probe_cluster_id |-> -1]))

\* Cluster::GetSendBitrateBps: mean_size * 8 * 1000 / send_mean_ms, as an int.
GetSendBitrateBps(c) == TruncDiv(c.mean_size * 8 * 1000 * c.count, c.send_sum)
\* Cluster::GetRecvBitrateBps: mean_size * 8 * 1000 / recv_mean_ms, as an int.
GetRecvBitrateBps(c) == TruncDiv(c.mean_size * 8 * 1000 * c.count, c.recv_sum)

\* A test without the bound on how much faster than sent a cluster may
\* arrive.
ClusterQualifiesOneSided(c) ==
  /\ c.num_above_min_delta > TruncDiv(c.count, 2)
  /\ c.recv_sum - c.send_sum <= 2 * c.count

\* The qualification test of FindBestProbe on one cluster.
ClusterQualifies(c) ==
  /\ c.num_above_min_delta > TruncDiv(c.count, 2)
  /\ c.recv_sum - c.send_sum <= 2 * c.count
  /\ c.send_sum - c.recv_sum <= 5 * c.count

\* A scan that goes on after a cluster that fails the test.
RECURSIVE ScanAllLoop(_, _, _, _)
ScanAllLoop(clusters, i, highest_probe_bitrate_bps, best_it) ==
  IF i > Len(clusters) THEN best_it
  ELSE IF /\ clusters[i].send_sum # 0
          /\ clusters[i].recv_sum # 0
          /\ ClusterQualifies(clusters[i])
          /\ Min(GetSendBitrateBps(clusters[i]),
                 GetRecvBitrateBps(clusters[i])) > highest_probe_bitrate_bps
    THEN ScanAllLoop(clusters, i + 1,
                     Min(GetSendBitrateBps(clusters[i]),
                         GetRecvBitrateBps(clusters[i])), i)
    ELSE ScanAllLoop(clusters, i + 1, highest_probe_bitrate_bps, best_it)

FindBestProbeScansAll(clusters) == ScanAllLoop(clusters, 1, 0, 0)

\* FindBestProbe from cluster i on: the index of the best cluster, 0 for
\* clusters.end().
RECURSIVE FindBestProbeLoop(_, _, _, _)
FindBestProbeLoop(clusters, i, highest_probe_bitrate_bps, best_it) ==
  IF i > Len(clusters) THEN best_it
  ELSE LET it == clusters[i]
       IN IF it.send_sum = 0 \/ it.recv_sum = 0
            THEN FindBestProbeLoop(clusters, i + 1, highest_probe_bitrate_bps,
                                   best_it)
          ELSE IF ClusterQualifies(it)
            THEN LET probe_bitrate_bps ==
                       Min(GetSendBitrateBps(it), GetRecvBitrateBps(it))
                 IN IF probe_bitrate_bps > highest_probe_bitrate_bps
                      THEN FindBestProbeLoop(clusters, i + 1, probe_bitrate_bps, i)
                      ELSE FindBestProbeLoop(clusters, i + 1,
                                             highest_probe_bitrate_bps, best_it)
          ELSE best_it

\* FindBestProbe(clusters)
FindBestProbe(clusters) == FindBestProbeLoop(clusters, 1, 0, 0)

(***************************************************************************)
(* RateStatistics incoming_bitrate_(kBitrateWindowMs, 8000): the sliding   *)
(* window throughput meter.  Its state is the list of 1 ms slots           *)
(* [t, bytes] inside the window, oldest first.                             *)
(***************************************************************************)
NewRateStatistics == <<>>

RECURSIVE EraseOld(_, _)
EraseOld(slots, now_ms) ==
  IF slots # <<>> /\ slots[1].t <= now_ms - kBitrateWindowMs
    THEN EraseOld(Tail(slots), now_ms)
    ELSE slots

\* incoming_bitrate_.Update(payload_size, now_ms)
RateUpdate(slots, payload_size, now_ms) ==
  LET kept == EraseOld(slots, now_ms)
  IN IF kept # <<>> /\ kept[Len(kept)].t = now_ms
       THEN [kept EXCEPT ![Len(kept)].bytes = @ + payload_size]
       ELSE Append(kept, [t |-> now_ms, bytes |-> payload_size])

RECURSIVE SumBytes(_)
SumBytes(slots) ==
  IF slots = <<>> THEN 0 ELSE slots[1].bytes + SumBytes(Tail(slots))

\* The value of an rtc::Optional<uint32_t> that holds nothing.
NoRate == -1
\* The window must have been filled for this long before a rate is reported.
kMinRateWindowMs == 500

\* incoming_bitrate_.Rate(now_ms): the rate in bps, NoRate when unknown.
Rate(slots, now_ms) ==
  LET kept == EraseOld(slots, now_ms)
  IN IF Len(kept) >= 2 /\ now_ms - kept[1].t >= kMinRateWindowMs
       THEN (SumBytes(kept) * 8000) \div kBitrateWindowMs
       ELSE NoRate

(***************************************************************************)
(* InterArrival: groups packets by send timestamp and emits the deltas     *)
(* between two completed groups.  Timestamps are uint32_t ticks.           *)
(***************************************************************************)
\* (kTimestampGroupLengthMs << kInterArrivalShift) / 1000, in units of 2^8
\* ticks like every timestamp of the model.
kTimestampGroupLengthTicks ==
  ((kTimestampGroupLengthMs * Pow2(kInterArrivalShift)) \div 1000)
    \div Pow2(kAbsSendTimeInterArrivalUpshift)
\* Arrival gap after which the groups are discarded.
kArrivalTimeOffsetThresholdMs == 3000
\* Burst tolerance, and the longest burst.
kBurstDeltaThresholdMs == 5
kMaxBurstDurationMs == 100

\* The unique_ptr that holds no object.
NULL == [null |-> TRUE]

\* new InterArrival(group length, kTimestampToMs, true)
NewInterArrival ==
  [null |-> FALSE, has_current |-> FALSE, first_ts |-> 0, complete_ts |-> 0,
   first_arrival_ms |-> 0, complete_arrival_ms |-> 0, size |-> 0,
   last_system_ms |-> 0, has_prev |-> FALSE, prev_complete_ts |-> 0,
   prev_complete_arrival_ms |-> 0, prev_size |-> 0]

\* The signed difference of two uint32_t timestamps, wrap-aware.
TimestampDiff(a, b) ==
  LET d == (a - b) % Pow2(24)
  IN IF d >= Pow2(23) THEN d - Pow2(24) ELSE d

StartGroup(ia, timestamp, arrival_time_ms, packet_size) ==
  [ia EXCEPT !.has_current = TRUE, !.first_ts = timestamp,
             !.complete_ts = timestamp, !.first_arrival_ms = arrival_time_ms,
             !.complete_arrival_ms = arrival_time_ms, !.size = packet_size,
             !.last_system_ms = arrival_time_ms]

\* inter_arrival_->ComputeDeltas(timestamp, arrival_time_ms, payload_size, ...):
\* the grouper afterwards, whether deltas were computed, the timestamp
\* delta in ticks and the arrival time delta in ms.
ComputeDeltas(ia, timestamp, arrival_time_ms, packet_size) ==
  LET none(next) == [ia |-> next, computed |-> FALSE, ts_delta |-> 0,
                     t_delta |-> 0]
      ts_diff == TimestampDiff(timestamp, ia.first_ts)
      in_burst == /\ arrival_time_ms - ia.complete_arrival_ms
                       < kBurstDeltaThresholdMs
                  /\ arrival_time_ms - ia.first_arrival_ms < kMaxBurstDurationMs
      in_group == ts_diff >= 0 /\ ts_diff <= kTimestampGroupLengthTicks
      reordered == arrival_time_ms
                     < ia.complete_arrival_ms - kBurstDeltaThresholdMs
  IN IF ~ia.has_current
       THEN none(StartGroup(ia, timestamp, arrival_time_ms, packet_size))
     ELSE IF arrival_time_ms - ia.last_system_ms > kArrivalTimeOffsetThresholdMs
       THEN none(StartGroup(NewInterArrival, timestamp, arrival_time_ms,
                            packet_size))
     ELSE IF in_burst \/ in_group
       THEN none([ia EXCEPT
                    !.complete_ts = IF TimestampDiff(timestamp, @) > 0
                                      THEN timestamp ELSE @,
                    !.complete_arrival_ms = Max(@, arrival_time_ms),
                    !.size = @ + packet_size,
                    !.last_system_ms = arrival_time_ms])
     ELSE IF reordered \/ ts_diff < 0
       THEN none(ia)
     ELSE
       LET rotated ==
             StartGroup([ia EXCEPT !.has_prev = TRUE,
                                   !.prev_complete_ts = ia.complete_ts,
                                   !.prev_complete_arrival_ms =
                                       ia.complete_arrival_ms,
                                   !.prev_size = ia.size],
                        timestamp, arrival_time_ms, packet_size)
       IN [ia |-> rotated, computed |-> ia.has_prev,
           ts_delta |-> (ia.complete_ts - ia.prev_complete_ts) % Pow2(24),
           t_delta |-> ia.complete_arrival_ms - ia.prev_complete_arrival_ms]

(***************************************************************************)
(* OveruseEstimator and OveruseDetector.  The estimator's filter works on  *)
(* reals: each update moves the offset, which starts at 0, part of the way *)
(* to the residual t_delta - ts_delta_ms.  The model keeps the count of    *)
(* deltas and the range the offset can lie in, and the detector is told by *)
(* `signal` where the modified offset lies against the threshold.          *)
(***************************************************************************)
\* new OveruseEstimator(OverUseDetectorOptions())
NewOveruseEstimator ==
  [null |-> FALSE, num_of_deltas |-> 0, offset_min |-> 0, offset_max |-> 0]

\* estimator_->Update(t_delta, ts_delta_ms, size_delta, detector_.State()),
\* ts_delta_ms rounded down.
EstimatorUpdate(estimator, t_delta, ts_delta_ms) ==
  [estimator EXCEPT !.num_of_deltas = @ + 1,
                    !.offset_min = Min(@, t_delta - ts_delta_ms - 1),
                    !.offset_max = Max(@, t_delta - ts_delta_ms)]

\* BandwidthUsage
kBwNormal == "kBwNormal"
kBwOverusing == "kBwOverusing"
kBwUnderusing == "kBwUnderusing"

\* Where the modified offset lies: above the threshold, below its negative,
\* or between the two.
DetectorSignals == {"above", "below", "within"}

kOverUsingTimeThreshold == 10
\* The adaptive threshold never falls below this, and the number of deltas
\* that multiplies the offset is capped at this.
kMinThreshold == 6
kMaxNumDeltas == 60

\* The signals the offset of `estimator` can give.
PossibleSignals(estimator) ==
  LET n == Min(estimator.num_of_deltas, kMaxNumDeltas)
  IN {"within"}
       \cup (IF n * estimator.offset_max > kMinThreshold
              THEN {"above"} ELSE {})
       \cup (IF n * estimator.offset_min < -kMinThreshold
              THEN {"below"} ELSE {})

\* OveruseDetector detector_(OverUseDetectorOptions())
NewOveruseDetector ==
  [state |-> kBwNormal, time_over_using |-> -1, overuse_counter |-> 0]

\* detector_.Detect(offset, ts_delta_ms, num_of_deltas, arrival_time_ms)
Detect(detector, signal, ts_delta_ms) ==
  IF signal = "above"
    THEN LET time == Min(kOverUsingTimeThreshold + 1,
                         IF detector.time_over_using = -1
                           THEN ts_delta_ms
                           ELSE detector.time_over_using + ts_delta_ms)
             counter == Min(2, detector.overuse_counter + 1)
         IN IF time > kOverUsingTimeThreshold /\ counter > 1
              THEN [state |-> kBwOverusing, time_over_using |-> time,
                    overuse_counter |-> counter]
              ELSE [detector EXCEPT !.time_over_using = time,
                                    !.overuse_counter = counter]
  ELSE IF signal = "below"
    THEN [state |-> kBwUnderusing, time_over_using |-> -1,
          overuse_counter |-> 0]
  ELSE [state |-> kBwNormal, time_over_using |-> -1, overuse_counter |-> 0]

(***************************************************************************)
(* AimdRateControl remote_rate_: the rate loop.                            *)
(***************************************************************************)
\* The minimum bitrate before SetMinBitrate is called, and the round-trip
\* time before OnRttUpdate is called.
kDefaultMinBitrateBps == 10000
kDefaultRttMs == 200

NewAimdRateControl ==
  [valid |-> FALSE, current_bitrate_bps |-> kDefaultMinBitrateBps,
   min_bitrate_bps |-> kDefaultMinBitrateBps, rtt_ms |-> kDefaultRttMs,
   rate_control_state |-> "kRcHold", region |-> "kRcMaxUnknown",
   last_change_ms |-> -1, last_decrease_ms |-> -1,
   input |-> [bw_state |-> kBwNormal, incoming_bitrate |-> NoRate]]

\* remote_rate_.ValidEstimate()
ValidEstimate(rc) == rc.valid
\* remote_rate_.LatestEstimate()
AimdLatestEstimate(rc) == rc.current_bitrate_bps

\* remote_rate_.SetRtt(rtt)
SetRtt(rc, rtt) == [rc EXCEPT !.rtt_ms = rtt]

\* A setter that leaves the current estimate below the new minimum.
AimdSetMinBitrateNoClamp(rc, min_bitrate_bps) ==
  [rc EXCEPT !.min_bitrate_bps = min_bitrate_bps]

\* remote_rate_.SetMinBitrate(min_bitrate_bps)
AimdSetMinBitrate(rc, min_bitrate_bps) ==
  [rc EXCEPT !.min_bitrate_bps = min_bitrate_bps,
             !.current_bitrate_bps = Max(@, min_bitrate_bps)]

\* remote_rate_.SetEstimate(bitrate_bps, now_ms): seeds the estimate.
SetEstimate(rc, bitrate_bps, now_ms) ==
  [rc EXCEPT !.valid = TRUE,
             !.current_bitrate_bps = Max(bitrate_bps, rc.min_bitrate_bps),
             !.last_change_ms = now_ms]

\* remote_rate_.GetFeedbackInterval():
\* clamp(500 ln(4e5 / current_bitrate_bps) + 500, 200, 1000), in steps of
\* 100 ms.
GetFeedbackInterval(rc) ==
  LET c == rc.current_bitrate_bps
  IN IF c <= 147151 THEN 1000
     ELSE IF c <= 179731 THEN 900
     ELSE IF c <= 219524 THEN 800
     ELSE IF c <= 268128 THEN 700
     ELSE IF c <= 327492 THEN 600
     ELSE IF c <= 400000 THEN 500
     ELSE IF c <= 488561 THEN 400
     ELSE IF c <= 596729 THEN 300
     ELSE 200

\* remote_rate_.TimeToReduceFurther(now_ms, incoming_bitrate_bps)
TimeToReduceFurther(rc, now_ms, incoming_bitrate_bps) ==
  /\ now_ms - rc.last_decrease_ms >= GetFeedbackInterval(rc) \div 2
  /\ rc.current_bitrate_bps > (3 * incoming_bitrate_bps) \div 2 + 10000

\* remote_rate_.Update(&input, now_ms).  `initialise` says whether this update
\* takes the measured incoming rate as the first estimate.
AimdUpdate(rc, bw_state, incoming_bitrate, initialise) ==
  LET seeded == IF ~rc.valid /\ initialise /\ incoming_bitrate # NoRate
                  THEN [rc EXCEPT
                          !.valid = TRUE,
                          !.current_bitrate_bps =
                              Max(incoming_bitrate, rc.min_bitrate_bps)]
                  ELSE rc
  IN [seeded EXCEPT !.input = [bw_state |-> bw_state,
                               incoming_bitrate |-> incoming_bitrate]]

\* 1.08 ^ (dt / 1000 ms) in millionths, dt clipped to one second and taken
\* in steps of 100 ms.
MultiplicativeFactor(dt_ms) ==
  <<1000000, 1007726, 1015511, 1023357, 1031263, 1039230, 1047259, 1055350,
    1063504, 1071720, 1080000>>[(Max(0, Min(dt_ms, 1000)) \div 100) + 1]

\* The state table of the rate loop.
ChangeState(rate_control_state, bw_state) ==
  IF bw_state = kBwOverusing THEN "kRcDecrease"
  ELSE IF bw_state = kBwUnderusing THEN "kRcHold"
  ELSE IF rate_control_state = "kRcHold" THEN "kRcIncrease"
  ELSE IF rate_control_state = "kRcDecrease" THEN "kRcHold"
  ELSE rate_control_state

\* remote_rate_.UpdateBandwidthEstimate(now_ms): the rate loop afterwards;
\* the target it returns is its current_bitrate_bps.
UpdateBandwidthEstimate(rc, now_ms) ==
  LET state == ChangeState(rc.rate_control_state, rc.input.bw_state)
      known == rc.input.incoming_bitrate # NoRate
      incoming == IF known THEN rc.input.incoming_bitrate
                  ELSE rc.current_bitrate_bps
      dt == IF rc.last_change_ms = -1 THEN 1000 ELSE now_ms - rc.last_change_ms
      increased ==
        IF rc.region = "kRcNearMax"
          THEN rc.current_bitrate_bps + 1000
          ELSE rc.current_bitrate_bps
                 + ((rc.current_bitrate_bps \div 1000)
                      * (MultiplicativeFactor(dt) - 1000000)) \div 1000
      capped == IF known THEN Min(increased, (3 * incoming) \div 2 + 10000)
                ELSE increased
      new == IF state = "kRcIncrease" THEN capped
             ELSE IF state = "kRcDecrease" THEN (85 * incoming) \div 100
             ELSE rc.current_bitrate_bps
  IN IF ~rc.valid
       THEN [rc EXCEPT !.rate_control_state = state]
       ELSE [rc EXCEPT
               !.rate_control_state = state,
               !.current_bitrate_bps = Max(new, rc.min_bitrate_bps),
               !.region = IF state = "kRcDecrease" THEN "kRcNearMax" ELSE @,
               !.last_decrease_ms = IF state = "kRcDecrease" THEN now_ms ELSE @,
               !.last_change_ms = now_ms]

(***************************************************************************)
(* DelayBasedBwe: probe analysis                                           *)
(***************************************************************************)
\* ProbeResult
kBitrateUpdated == "kBitrateUpdated"
kNoUpdate == "kNoUpdate"

\* A test that also takes a probe at or below the estimate.
IsBitrateImprovingAlways(rc, new_bitrate_bps) == new_bitrate_bps > 0

\* DelayBasedBwe::IsBitrateImproving(new_bitrate_bps)
IsBitrateImproving(rc, new_bitrate_bps) ==
  LET initial_probe == ~ValidEstimate(rc) /\ new_bitrate_bps > 0
      bitrate_above_estimate ==
        ValidEstimate(rc) /\ new_bitrate_bps > AimdLatestEstimate(rc)
  IN initial_probe \/ bitrate_above_estimate

\* The probe bitrate of the best cluster (lines 164-165), 0 when there is
\* none.
ProbeBitrateBps(clusters, best_it) ==
  IF best_it # 0
    THEN Min(GetSendBitrateBps(clusters[best_it]),
             GetRecvBitrateBps(clusters[best_it]))
    ELSE 0

\* An analysis that drops the oldest probe only above kMaxProbePackets.
ProcessBestProbeAboveMax(probes, rc, now_ms, clusters, best_it, probe_bitrate_bps) ==
  IF clusters = <<>>
    THEN [result |-> kNoUpdate,
          probes |-> IF Len(probes) > kMaxProbePackets
                       THEN Tail(probes) ELSE probes,
          remote_rate |-> rc, set_estimate |-> FALSE, clusters |-> clusters,
          best_it |-> best_it, probe_bitrate_bps |-> probe_bitrate_bps]
  ELSE IF best_it # 0 /\ IsBitrateImproving(rc, probe_bitrate_bps)
    THEN [result |-> kBitrateUpdated, probes |-> probes,
          remote_rate |-> SetEstimate(rc, probe_bitrate_bps, now_ms),
          set_estimate |-> TRUE, clusters |-> clusters,
          best_it |-> best_it, probe_bitrate_bps |-> probe_bitrate_bps]
  ELSE [result |-> kNoUpdate,
        probes |-> IF Len(clusters) >= kExpectedNumberOfProbes
                     THEN <<>> ELSE probes,
        remote_rate |-> rc, set_estimate |-> FALSE, clusters |-> clusters,
        best_it |-> best_it, probe_bitrate_bps |-> probe_bitrate_bps]

\* ProcessClusters once the clusters, the best of them and its probe bitrate
\* are known (lines 154-184).
ProcessBestProbe(probes, rc, now_ms, clusters, best_it, probe_bitrate_bps) ==
  IF clusters = <<>>
    THEN [result |-> kNoUpdate,
          probes |-> IF Len(probes) >= kMaxProbePackets
                       THEN Tail(probes) ELSE probes,
          remote_rate |-> rc, set_estimate |-> FALSE, clusters |-> clusters,
          best_it |-> best_it, probe_bitrate_bps |-> probe_bitrate_bps]
  ELSE IF best_it # 0 /\ IsBitrateImproving(rc, probe_bitrate_bps)
    THEN [result |-> kBitrateUpdated, probes |-> probes,
          remote_rate |-> SetEstimate(rc, probe_bitrate_bps, now_ms),
          set_estimate |-> TRUE, clusters |-> clusters,
          best_it |-> best_it, probe_bitrate_bps |-> probe_bitrate_bps]
  ELSE [result |-> kNoUpdate,
        probes |-> IF Len(clusters) >= kExpectedNumberOfProbes
                     THEN <<>> ELSE probes,
        remote_rate |-> rc, set_estimate |-> FALSE, clusters |-> clusters,
        best_it |-> best_it, probe_bitrate_bps |-> probe_bitrate_bps]

\* ProcessClusters once the clusters and the best of them are known.
ProcessFoundClusters(probes, rc, now_ms, clusters, best_it) ==
  ProcessBestProbe(probes, rc, now_ms, clusters, best_it,
                   ProbeBitrateBps(clusters, best_it))

\* ProcessClusters once the clusters are known (lines 162-184).
ProcessComputedClusters(probes, rc, now_ms, clusters) ==
  ProcessFoundClusters(probes, rc, now_ms, clusters, FindBestProbe(clusters))

\* DelayBasedBwe::ProcessClusters(now_ms) on the probe list `probes` and the
\* rate loop `rc`: the result, the probe list and the rate loop afterwards
\* (and whether SetEstimate was called, the clusters and the best probe).
ProcessClusters(probes, rc, now_ms) ==
  ProcessComputedClusters(probes, rc, now_ms, ComputeClusters(probes))

\* What stands for the result when ProcessClusters is not called.
NoProbeAnalysis(probes, rc) ==
  [result |-> kNoUpdate, probes |-> probes, remote_rate |-> rc,
   set_estimate |-> FALSE, clusters |-> <<>>, best_it |-> 0,
   probe_bitrate_bps |-> 0]

(***************************************************************************)
(* DelayBasedBwe: the SSRC liveness map, a set of <<ssrc, last seen>>      *)
(***************************************************************************)
\* Keys(ssrcs_)
Keys(map) == {e[1] : e \in map}

\* An assignment that is lost.
MapPutLost(map, ssrc, now_ms) == map

\* ssrcs_[ssrc] = now_ms
MapPut(map, ssrc, now_ms) ==
  {e \in map : e[1] # ssrc} \cup {<<ssrc, now_ms>>}

\* ssrcs_.erase(ssrc)
MapErase(map, ssrc) == {e \in map : e[1] # ssrc}

\* A loop that also erases the streams seen exactly kStreamTimeOutMs ago.
TimeoutStreamsAtTimeout(map, now_ms) ==
  {e \in map : ~((now_ms - e[2]) >= kStreamTimeOutMs)}

\* A loop that erases nothing.
TimeoutStreamsErasesNone(map, now_ms) == map

\* The loop of TimeoutStreams: the entries that stay.
TimeoutStreams(map, now_ms) ==
  {e \in map : ~((now_ms - e[2]) > kStreamTimeOutMs)}

(***************************************************************************)
(* Bounds of the model and the inputs it draws                             *)
(***************************************************************************)
\* Packets fed in a run of Spec, of SpecProbe and of SpecBurst.
MaxPackets == 3
MaxProbeRun == 7
MaxBurst == 16
MaxSmall == 1
\* Calls of the configuration thread in a run.
MaxConfigCalls == 1
MaxEstimateCalls == 2
\* The clock stops here.
MaxTimeMs == 2601
\* The clock of SpecTimeout stops here.
MaxSilenceMs == 3010
\* Packets fed in each of the two runs of SpecWrap.
MaxWrapRun == 5
\* Runs of probes, each of a cluster id of its own, in a probe list of
\* SpecClusters.
MaxRuns == 5
MaxCsrcs == 1
MaxXLen == 2
\* Packets fed in a run of SpecDecision.
MaxDecisionPackets == 7
\* Packets fed and the time they take in a run of SpecGate.
MaxGatePackets == 4
MaxGateMs == 3801
\* Elements of an extension block of SpecParse.
MaxElements == 2
\* Elements of a feedback vector, and elements fed in a run of SpecBatch.
MaxVectorLen == 2
MaxBatchPackets == 4

Ssrcs == {1, 2}
\* How far the clock moves between two packets of Spec.
TimeSteps == {600, 2001}
\* Minimum bitrates and round-trip times the configuration thread sets.
MinBitrates == {50000}
\* How far the clock moves between two packets of SpecTimeout: an SSRC seen
\* two steps ago is exactly at the timeout, just past it, or long past it.
SilenceSteps == {1000, 1001, 2001}
Rtts == {50}

(***************************************************************************)
(* State                                                                   *)
(***************************************************************************)
VARIABLES
  ssrcs_,                 \* Ssrcs ssrcs_
  probes_,                \* std::list<Probe> probes_
  total_probes_received_,
  first_packet_time_ms_,
  last_update_ms_,
  inter_arrival_,         \* std::unique_ptr<InterArrival>
  estimator_,             \* std::unique_ptr<OveruseEstimator>
  detector_,
  incoming_bitrate_,
  remote_rate_,
  crit_,                  \* who holds crit_: "free", "network", "config"
  pc,                     \* where the network thread is in IncomingPacketInfo
  call,                   \* the arguments and locals of that call
  observer_,              \* the OnReceiveBitrateChanged calls made so far
  warnings_,              \* the missing-extension warnings logged so far
  estimate_,              \* what the last LatestEstimate call gave its caller
  wall_ms,                \* the receiver's clock
  send_ms,                \* the sender's clock
  packets,                \* packets fed so far
  fed_ms,                 \* when the last of them arrived
  config_calls,           \* calls of the configuration thread so far
  unguarded_,             \* members that were used without holding crit_
  locked_,                \* what the last locked section computed
  emptied_,               \* whether ssrcs_ has gone from non-empty to empty
  wrap_,                  \* the sender's 24-bit clock and the run before this
  feedback_,              \* the vector IncomingPacketFeedbackVector iterates
  parser_,                \* the last extension block parsed and its header
  analysis_,              \* the last probe list analysed on its own
  packet_                 \* the last buffer handed to the header parser

estimator_vars ==
  <<ssrcs_, probes_, total_probes_received_, first_packet_time_ms_,
    last_update_ms_, inter_arrival_, estimator_, detector_, incoming_bitrate_,
    remote_rate_>>

vars ==
  <<ssrcs_, probes_, total_probes_received_, first_packet_time_ms_,
    last_update_ms_, inter_arrival_, estimator_, detector_, incoming_bitrate_,
    remote_rate_, crit_, pc, call, observer_, warnings_, estimate_, wall_ms,
    send_ms, packets, fed_ms, config_calls, unguarded_, locked_, emptied_,
    wrap_, feedback_, parser_, analysis_, packet_>>

\* No probe list has been analysed on its own.
NoRun == [ran |-> FALSE]

\* No extension block has been parsed.
NoParse == [block |-> <<>>, parsed |-> FALSE]
NoPacket == [parsed |-> FALSE]

\* No feedback vector is being iterated.
NoFeedback == [vector |-> <<>>, next |-> 0]

\* The sender's clock starts at 0 ticks and no run came before.
NoWrap ==
  [start |-> 0, fed |-> <<>>, second |-> FALSE, reference_fed |-> <<>>,
   reference_log |-> <<>>]

NoCall ==
  [arrival_time_ms |-> 0, timestamp |-> 0, payload_size |-> 0, ssrc |-> 0,
   probe_cluster_id |-> kNotAProbe, update_estimate |-> FALSE,
   target_bitrate_bps |-> 0, ssrcs |-> {}]

\* What the locked section of a packet saw and did, kept for the properties.
NoAnalysis ==
  [ran |-> FALSE, result |-> kNoUpdate, set_estimate |-> FALSE,
   clusters |-> <<>>, best_it |-> 0, probe_bitrate_bps |-> 0,
   probes_after |-> <<>>,
   valid_before |-> FALSE, estimate_before |-> 0, valid_after |-> FALSE,
   estimate_after |-> 0]

NoLocked ==
  [ssrcs |-> {}, target_bitrate_bps |-> 0, now_ms |-> -1, ssrc |-> 0,
   emptied |-> FALSE, bw_state |-> kBwNormal, incoming_rate |-> NoRate,
   updated |-> FALSE, analysis |-> NoAnalysis,
   timed_out |-> {}, timed |-> {}, ia_before |-> NULL, est_before |-> NULL,
   ia0 |-> NULL, est0 |-> NULL, min_bitrate_bps |-> 0,
   feedback_interval |-> 0]

\* The out-parameters of LatestEstimate before the call writes them.
Unwritten == [ssrcs |-> {0}, bitrate_bps |-> -1]

\* DelayBasedBwe::DelayBasedBwe(observer)
Init ==
  /\ ssrcs_ = {}
  /\ probes_ = <<>>
  /\ total_probes_received_ = 0
  /\ first_packet_time_ms_ = -1
  /\ last_update_ms_ = -1
  /\ inter_arrival_ = NULL
  /\ estimator_ = NULL
  /\ detector_ = NewOveruseDetector
  /\ incoming_bitrate_ = NewRateStatistics
  /\ remote_rate_ = NewAimdRateControl
  /\ crit_ = "free"
  /\ pc = "idle"
  /\ call = NoCall
  /\ observer_ = <<>>
  /\ warnings_ = <<>>
  /\ estimate_ = [calls |-> 0, ret |-> FALSE, ssrcs |-> Unwritten.ssrcs,
                  bitrate_bps |-> Unwritten.bitrate_bps, at_ms |-> 0,
                  entries |-> {}, processed_ms |-> -1]
  /\ wall_ms = 0
  /\ send_ms = 0
  /\ packets = 0
  /\ fed_ms = -1
  /\ config_calls = 0
  /\ unguarded_ = {}
  /\ locked_ = NoLocked
  /\ emptied_ = FALSE
  /\ wrap_ = NoWrap
  /\ feedback_ = NoFeedback
  /\ parser_ = NoParse
  /\ analysis_ = NoRun
  /\ packet_ = NoPacket

(***************************************************************************)
(* The lock                                                                *)
(***************************************************************************)
\* A scope that takes no lock, to tell the lock discipline from its absence.
NoCritScope(thread) == "free"

\* rtc::CritScope lock(&crit_): who holds crit_ inside the scope.
CritScope(thread) == thread

\* The members among `members` that a thread uses without holding crit_.
Unguarded(members, thread, holder) ==
  IF holder = thread THEN {} ELSE members

(***************************************************************************)
(* The network thread: IncomingPacket and IncomingPacketInfo               *)
(***************************************************************************)
\* A check that warns but lets the packet through.
HeaderCheckForwardsAll(header) ==
  [warn |-> ~header.hasAbsoluteSendTime, forward |-> TRUE]

\* The check both IncomingPacket overloads make on the header: whether the
\* warning is logged, and whether the packet goes on to IncomingPacketInfo.
HeaderCheck(header) ==
  [warn |-> ~header.hasAbsoluteSendTime,
   forward |-> header.hasAbsoluteSendTime]

\* IncomingPacketInfo up to the locked section (lines 240-259): the rate
\* counter and first_packet_time_ms_ are updated before crit_ is taken.
BeginPacketInfo(arrival_time_ms, send_time_24bits, payload_size, ssrc, probe_cluster_id) ==
  /\ incoming_bitrate_' =
       RateUpdate(incoming_bitrate_, payload_size, arrival_time_ms)
  /\ first_packet_time_ms_' =
       IF first_packet_time_ms_ = -1 THEN arrival_time_ms
       ELSE first_packet_time_ms_
  /\ unguarded_' = unguarded_ \cup
       Unguarded({"incoming_bitrate_", "first_packet_time_ms_"}, "network",
                 crit_)
  /\ call' = [arrival_time_ms |-> arrival_time_ms,
              timestamp |-> Timestamp(send_time_24bits),
              payload_size |-> payload_size, ssrc |-> ssrc,
              probe_cluster_id |-> probe_cluster_id,
              update_estimate |-> FALSE, target_bitrate_bps |-> 0,
              ssrcs |-> {}]
  /\ pc' = "lock"
  /\ UNCHANGED <<ssrcs_, probes_, total_probes_received_, last_update_ms_,
                 inter_arrival_, estimator_, detector_, remote_rate_, crit_,
                 observer_, estimate_, locked_, emptied_>>

\* Either overload of IncomingPacket on a packet that arrives at
\* arrival_time_ms.
IncomingPacketCall(arrival_time_ms, header, payload_size, probe_cluster_id) ==
  /\ pc = "idle"
  /\ packets' = packets + 1
  /\ fed_ms' = arrival_time_ms
  /\ warnings_' =
       IF HeaderCheck(header).warn
         THEN Append(warnings_, [at_ms |-> arrival_time_ms,
                                 streams |-> Keys(ssrcs_),
                                 valid |-> ValidEstimate(remote_rate_)])
         ELSE warnings_
  /\ UNCHANGED config_calls
  /\ IF HeaderCheck(header).forward
       THEN BeginPacketInfo(arrival_time_ms, header.absoluteSendTime,
                            payload_size, header.ssrc, probe_cluster_id)
       ELSE UNCHANGED <<estimator_vars, crit_, pc, call, observer_, estimate_,
                        unguarded_, locked_, emptied_>>

\* The RTP headers a packet sent at send_time_ms can carry.
Headers(send_time_ms) ==
  [ssrc : Ssrcs, hasAbsoluteSendTime : BOOLEAN,
   absoluteSendTime : {ConvertMsTo24Bits(send_time_ms)}]

\* IncomingPacket(arrival_time_ms, payload_size, header)
IncomingPacket(header, payload_size) ==
  /\ packets < MaxPackets
  /\ fed_ms < wall_ms
  /\ IncomingPacketCall(wall_ms, header, payload_size, kNotAProbe)
  /\ UNCHANGED <<wall_ms, send_ms, wrap_, feedback_, parser_,
                 analysis_, packet_>>

\* IncomingPacket(arrival_time_ms, payload_size, header, probe_cluster_id)
IncomingPacketProbe(header, payload_size, probe_cluster_id) ==
  /\ packets < MaxPackets
  /\ fed_ms < wall_ms
  /\ IncomingPacketCall(wall_ms, header, payload_size, probe_cluster_id)
  /\ UNCHANGED <<wall_ms, send_ms, wrap_, feedback_, parser_,
                 analysis_, packet_>>

\* Arguments read again from the members at the time of the callback.
CallbackArgsReread(locals, map, rc) ==
  [ssrcs |-> {e[1] : e \in map}, bitrate_bps |-> rc.current_bitrate_bps]

\* The arguments of observer_->OnReceiveBitrateChanged(ssrcs,
\* target_bitrate_bps): the locals of the call.
CallbackArgs(locals, map, rc) ==
  [ssrcs |-> locals.ssrcs, bitrate_bps |-> locals.target_bitrate_bps]

\* A decision that takes a packet at the end of the feedback interval too.
UpdateDecisionAtInterval(probe_result, last_update_ms, now_ms, rc, bw_state, incoming_rate) ==
  \/ probe_result = kBitrateUpdated
  \/ last_update_ms = -1
  \/ now_ms - last_update_ms >= GetFeedbackInterval(rc)
  \/ /\ bw_state = kBwOverusing
     /\ incoming_rate # NoRate
     /\ TimeToReduceFurther(rc, now_ms, incoming_rate)

\* A decision that leaves the result of the probe analysis out.
UpdateDecisionPeriodicOnly(probe_result, last_update_ms, now_ms, rc, bw_state, incoming_rate) ==
  \/ last_update_ms = -1
  \/ now_ms - last_update_ms > GetFeedbackInterval(rc)
  \/ /\ bw_state = kBwOverusing
     /\ incoming_rate # NoRate
     /\ TimeToReduceFurther(rc, now_ms, incoming_rate)

\* Whether IncomingPacketInfo runs the rate loop for this packet (lines
\* 294-295 and 305-318).
UpdateDecision(probe_result, last_update_ms, now_ms, rc, bw_state, incoming_rate) ==
  \/ probe_result = kBitrateUpdated
  \/ last_update_ms = -1
  \/ now_ms - last_update_ms > GetFeedbackInterval(rc)
  \/ /\ bw_state = kBwOverusing
     /\ incoming_rate # NoRate
     /\ TimeToReduceFurther(rc, now_ms, incoming_rate)

\* A gate that is still open at the end of the probing interval.
IsProbeUntilInterval(probe_cluster_id, payload_size, rc, now_ms, first_packet_time_ms) ==
  /\ probe_cluster_id # kNotAProbe
  /\ payload_size > kMinProbePacketSize
  /\ (~ValidEstimate(rc)
       \/ now_ms - first_packet_time_ms <= kInitialProbingIntervalMs)

\* Whether the packet is taken as a probe (lines 272-275).
IsProbe(probe_cluster_id, payload_size, rc, now_ms, first_packet_time_ms) ==
  /\ probe_cluster_id # kNotAProbe
  /\ payload_size > kMinProbePacketSize
  /\ (~ValidEstimate(rc)
       \/ now_ms - first_packet_time_ms < kInitialProbingIntervalMs)

\* A reset under the opposite test.
ResetIfStreamsLeft(timed, ptr, fresh) == IF timed # {} THEN fresh ELSE ptr

\* A reset whatever is left in the map.
ResetAlways(timed, ptr, fresh) == fresh

\* No reset at all.
ResetNever(timed, ptr, fresh) == ptr

\* TimeoutStreams(now_ms) on the unique_ptr `ptr` (lines 354-359): a new
\* object `fresh` if no stream is left in `timed`.
ResetIfEmpty(timed, ptr, fresh) == IF timed = {} THEN fresh ELSE ptr

\* A snapshot of the map as TimeoutStreams left it.
SnapshotBeforeRecord(timed, ssrc, now_ms) == Keys(timed)

\* ssrcs = Keys(ssrcs_) (line 330), the map being `timed` with the packet's
\* SSRC recorded (line 267).
SnapshotSsrcs(timed, ssrc, now_ms) == Keys(MapPut(timed, ssrc, now_ms))

\* A flag that stays set whether or not the estimate is valid.
UpdateEstimateUnchecked(update1, rr2) == update1

\* update_estimate at the end of the locked section: after an update it is
\* remote_rate_.ValidEstimate() (line 329), else it stays false.
UpdateEstimate(update1, rr2) == update1 /\ ValidEstimate(rr2)

\* The end of the locked section: the members and the locals as the steps
\* before it computed them.
LockedCommit(now_ms, timed, is_probe, pr, deltas, est1, det1, incoming_rate, update1, rr2) ==
  /\ ssrcs_' = MapPut(timed, call.ssrc, now_ms)
  /\ inter_arrival_' = deltas.ia
  /\ estimator_' = est1
  /\ detector_' = det1
  /\ probes_' = pr.probes
  /\ total_probes_received_' =
       total_probes_received_ + (IF is_probe THEN 1 ELSE 0)
  /\ remote_rate_' = rr2
  /\ call' = [call EXCEPT
       !.update_estimate = UpdateEstimate(update1, rr2),
       !.target_bitrate_bps = IF update1 THEN AimdLatestEstimate(rr2) ELSE 0,
       !.ssrcs = IF update1 THEN SnapshotSsrcs(timed, call.ssrc, now_ms)
                 ELSE {}]
  /\ locked_' =
       [ssrcs |-> IF update1 THEN SnapshotSsrcs(timed, call.ssrc, now_ms)
                  ELSE {},
        target_bitrate_bps |-> IF update1 THEN AimdLatestEstimate(rr2) ELSE 0,
        now_ms |-> now_ms, ssrc |-> call.ssrc,
        emptied |-> (emptied_ \/ (ssrcs_ # {} /\ timed = {})),
        bw_state |-> det1.state,
        incoming_rate |-> incoming_rate,
        updated |-> update1,
        analysis |->
          [ran |-> is_probe, result |-> pr.result,
           set_estimate |-> pr.set_estimate,
           clusters |-> pr.clusters,
           best_it |-> pr.best_it,
           probe_bitrate_bps |-> pr.probe_bitrate_bps,
           probes_after |-> pr.probes,
           valid_before |-> ValidEstimate(remote_rate_),
           estimate_before |-> AimdLatestEstimate(remote_rate_),
           valid_after |-> ValidEstimate(pr.remote_rate),
           estimate_after |-> AimdLatestEstimate(pr.remote_rate)],
        timed_out |-> Keys(ssrcs_) \ Keys(timed), timed |-> timed,
        ia_before |-> inter_arrival_, est_before |-> estimator_,
        ia0 |-> ResetIfEmpty(timed, inter_arrival_, NewInterArrival),
        est0 |-> ResetIfEmpty(timed, estimator_, NewOveruseEstimator),
        min_bitrate_bps |-> rr2.min_bitrate_bps,
        feedback_interval |-> GetFeedbackInterval(pr.remote_rate)]
  /\ unguarded_' = unguarded_ \cup
       Unguarded({"ssrcs_", "inter_arrival_", "estimator_", "detector_",
                  "probes_", "remote_rate_", "incoming_bitrate_",
                  "first_packet_time_ms_", "last_update_ms_"},
                 "network", CritScope("network"))
  /\ emptied_' = (emptied_ \/ (ssrcs_ # {} /\ timed = {}))
  /\ crit_' = CritScope("network")
  /\ pc' = "unlock"
  /\ UNCHANGED <<first_packet_time_ms_, last_update_ms_, incoming_bitrate_>>

\* The rate loop of the locked section (lines 320-331).
LockedUpdate(now_ms, timed, is_probe, pr, deltas, est1, det1, incoming_rate, update1, initialise) ==
  LockedCommit(now_ms, timed, is_probe, pr, deltas, est1, det1, incoming_rate,
               update1,
               IF update1
                 THEN UpdateBandwidthEstimate(
                        AimdUpdate(pr.remote_rate, det1.state, incoming_rate,
                                   initialise), now_ms)
                 ELSE pr.remote_rate)

\* The locked section from the update decision on (lines 305-331).
LockedDecision(now_ms, timed, is_probe, pr, deltas, est1, det1, incoming_rate, initialise) ==
  LockedUpdate(now_ms, timed, is_probe, pr, deltas, est1, det1, incoming_rate,
               UpdateDecision(pr.result, last_update_ms_, now_ms,
                              pr.remote_rate, det1.state, incoming_rate),
               initialise)

\* The locked section from the estimator and the detector on (lines
\* 299-331), est0 being the estimator TimeoutStreams left.
LockedDetect(now_ms, timed, is_probe, pr, deltas, est0, incoming_rate, signal, initialise) ==
  IF deltas.computed
    THEN /\ signal \in PossibleSignals(
                          EstimatorUpdate(est0, deltas.t_delta,
                                          TicksToMs(deltas.ts_delta)))
         /\ LockedDecision(now_ms, timed, is_probe, pr, deltas,
                           EstimatorUpdate(est0, deltas.t_delta,
                                           TicksToMs(deltas.ts_delta)),
                           Detect(detector_, signal, TicksToMs(deltas.ts_delta)),
                           incoming_rate, initialise)
    ELSE /\ signal = "within"
         /\ LockedDecision(now_ms, timed, is_probe, pr, deltas, est0,
                           detector_, incoming_rate, initialise)

\* The locked section after TimeoutStreams (lines 265-331): `timed` is the
\* map, ia0 and est0 the inter-arrival filter and the estimator it left.
LockedProbe(now_ms, timed, ia0, est0, is_probe, signal, initialise) ==
  IF ia0.null \/ est0.null
    THEN \* RTC_DCHECK(inter_arrival_.get()) or the next one fails.
         /\ pc' = "dcheck_failed"
         /\ crit_' = CritScope("network")
         /\ UNCHANGED <<estimator_vars, call, unguarded_, locked_, emptied_>>
    ELSE LockedDetect(now_ms, timed, is_probe,
                      IF is_probe
                        THEN ProcessClusters(
                               Append(probes_,
                                      Probe(SendTimeMs(call.timestamp), now_ms,
                                            call.payload_size,
                                            call.probe_cluster_id)),
                               remote_rate_, now_ms)
                        ELSE NoProbeAnalysis(probes_, remote_rate_),
                      ComputeDeltas(ia0, call.timestamp, now_ms,
                                    call.payload_size),
                      est0, Rate(incoming_bitrate_, now_ms), signal,
                      initialise)

\* The locked section of IncomingPacketInfo (lines 261-331), crit_ taken and
\* still held afterwards.
LockedSection(signal, initialise) ==
  /\ pc = "lock"
  /\ crit_ = "free"
  /\ LockedProbe(call.arrival_time_ms,
                 TimeoutStreams(ssrcs_, call.arrival_time_ms),
                 ResetIfEmpty(TimeoutStreams(ssrcs_, call.arrival_time_ms),
                              inter_arrival_, NewInterArrival),
                 ResetIfEmpty(TimeoutStreams(ssrcs_, call.arrival_time_ms),
                              estimator_, NewOveruseEstimator),
                 IsProbe(call.probe_cluster_id, call.payload_size,
                         remote_rate_, call.arrival_time_ms,
                         first_packet_time_ms_),
                 signal, initialise)
  /\ UNCHANGED <<observer_, warnings_, estimate_, wall_ms, send_ms, packets,
                 fed_ms, config_calls, wrap_, feedback_, parser_,
                 analysis_, packet_>>

\* The end of the CritScope of IncomingPacketInfo.
LeaveCritScope ==
  /\ pc = "unlock"
  /\ crit_' = "free"
  /\ pc' = "notify"
  /\ UNCHANGED <<estimator_vars, call, observer_, warnings_, estimate_,
                 wall_ms, send_ms, packets, fed_ms, config_calls, unguarded_,
                 locked_, emptied_, wrap_, feedback_, parser_,
                 analysis_, packet_>>

\* IncomingPacketInfo after the locked section (lines 333-337).
Notify ==
  /\ pc = "notify"
  /\ IF call.update_estimate
       THEN /\ last_update_ms_' = call.arrival_time_ms
            /\ observer_' =
                 Append(observer_,
                        [ssrcs |-> CallbackArgs(call, ssrcs_, remote_rate_).ssrcs,
                         bitrate_bps |->
                           CallbackArgs(call, ssrcs_, remote_rate_).bitrate_bps,
                         crit |-> crit_, packet |-> packets,
                         now_ms |-> call.arrival_time_ms,
                         ssrc |-> call.ssrc,
                         locked_ssrcs |-> locked_.ssrcs,
                         locked_target_bps |-> locked_.target_bitrate_bps,
                         map |-> Keys(ssrcs_), emptied |-> locked_.emptied,
                         set_estimate |-> locked_.analysis.set_estimate,
                         probe_bitrate_bps |->
                           locked_.analysis.probe_bitrate_bps,
                         bw_state |-> locked_.bw_state,
                         incoming_rate |-> locked_.incoming_rate,
                         min_bitrate_bps |-> remote_rate_.min_bitrate_bps,
                         locked_min_bitrate_bps |->
                           locked_.min_bitrate_bps])
            /\ unguarded_' = unguarded_ \cup
                 Unguarded({"last_update_ms_"}, "network", crit_)
       ELSE UNCHANGED <<last_update_ms_, observer_, unguarded_>>
  /\ pc' = "idle"
  /\ call' = NoCall
  /\ UNCHANGED <<ssrcs_, probes_, total_probes_received_,
                 first_packet_time_ms_, inter_arrival_, estimator_, detector_,
                 incoming_bitrate_, remote_rate_, crit_, warnings_, estimate_,
                 wall_ms, send_ms, packets, fed_ms, config_calls, locked_,
                 emptied_, wrap_, feedback_, parser_,
                 analysis_, packet_>>

(***************************************************************************)
(* The configuration thread.  Each of its entry points takes crit_ for its *)
(* whole body, so each is one step, taken while crit_ is free.             *)
(***************************************************************************)
ConfigCall ==
  /\ crit_ = "free"
  /\ config_calls' = config_calls + 1
  /\ unguarded_' = unguarded_ \cup
       Unguarded({"ssrcs_", "remote_rate_"}, "config", CritScope("config"))
  /\ UNCHANGED <<pc, call, crit_, observer_, warnings_, wall_ms, send_ms,
                 packets, fed_ms, locked_, wrap_,
                 feedback_, parser_,
                 analysis_, packet_>>

\* DelayBasedBwe::OnRttUpdate(avg_rtt_ms, max_rtt_ms)
OnRttUpdate(avg_rtt_ms, max_rtt_ms) ==
  /\ ConfigCall
  /\ remote_rate_' = SetRtt(remote_rate_, avg_rtt_ms)
  /\ UNCHANGED <<ssrcs_, probes_, total_probes_received_,
                 first_packet_time_ms_, last_update_ms_, inter_arrival_,
                 estimator_, detector_, incoming_bitrate_, estimate_,
                 emptied_>>

\* DelayBasedBwe::RemoveStream(ssrc)
RemoveStream(ssrc) ==
  /\ ConfigCall
  /\ ssrcs_' = MapErase(ssrcs_, ssrc)
  /\ emptied_' = (emptied_ \/ (ssrcs_ # {} /\ ssrcs_' = {}))
  /\ UNCHANGED <<probes_, total_probes_received_, first_packet_time_ms_,
                 last_update_ms_, inter_arrival_, estimator_, detector_,
                 incoming_bitrate_, remote_rate_, estimate_>>

\* DelayBasedBwe::SetMinBitrate(min_bitrate_bps)
SetMinBitrate(min_bitrate_bps) ==
  /\ ConfigCall
  /\ remote_rate_' = AimdSetMinBitrate(remote_rate_, min_bitrate_bps)
  /\ UNCHANGED <<ssrcs_, probes_, total_probes_received_,
                 first_packet_time_ms_, last_update_ms_, inter_arrival_,
                 estimator_, detector_, incoming_bitrate_, estimate_,
                 emptied_>>

\* A body without the branch for the empty map.
LatestEstimateResultNoEmptyBranch(map, rc) ==
  IF ~rc.valid
    THEN [ret |-> FALSE, ssrcs |-> {0}, bitrate_bps |-> -1]
    ELSE [ret |-> TRUE, ssrcs |-> {e[1] : e \in map},
          bitrate_bps |-> rc.current_bitrate_bps]

\* The body of DelayBasedBwe::LatestEstimate(ssrcs, bitrate_bps): what it
\* returns and what it leaves in its two out-parameters.
LatestEstimateResult(map, rc) ==
  IF ~ValidEstimate(rc)
    THEN [ret |-> FALSE, ssrcs |-> Unwritten.ssrcs,
          bitrate_bps |-> Unwritten.bitrate_bps]
    ELSE [ret |-> TRUE, ssrcs |-> Keys(map),
          bitrate_bps |-> IF map = {} THEN 0 ELSE AimdLatestEstimate(rc)]

\* DelayBasedBwe::LatestEstimate(ssrcs, bitrate_bps)
LatestEstimate ==
  /\ ConfigCall
  /\ estimate_' =
       [calls |-> estimate_.calls + 1,
        ret |-> LatestEstimateResult(ssrcs_, remote_rate_).ret,
        ssrcs |-> LatestEstimateResult(ssrcs_, remote_rate_).ssrcs,
        bitrate_bps |-> LatestEstimateResult(ssrcs_, remote_rate_).bitrate_bps,
        at_ms |-> wall_ms, entries |-> ssrcs_,
        processed_ms |-> locked_.now_ms]
  /\ UNCHANGED <<estimator_vars, emptied_>>

(***************************************************************************)
(* The clock                                                               *)
(***************************************************************************)
\* Time passes between two packets, once; the sender's clock runs with the
\* receiver's.
TimePassesUntil(d, limit) ==
  /\ pc = "idle"
  /\ wall_ms + d <= limit
  /\ fed_ms = wall_ms \/ wall_ms = 0
  /\ wall_ms' = wall_ms + d
  /\ send_ms' = send_ms + d
  /\ UNCHANGED <<estimator_vars, crit_, pc, call, observer_, warnings_,
                 estimate_, packets, fed_ms, config_calls, unguarded_,
                 locked_, emptied_, wrap_, feedback_, parser_,
                 analysis_, packet_>>

TimePasses(d) == TimePassesUntil(d, MaxTimeMs)

(***************************************************************************)
(* Spec: packets of two SSRCs against the configuration thread             *)
(***************************************************************************)
PayloadSizes == {1200}

Next ==
  \/ \E d \in TimeSteps : TimePasses(d)
  \/ \E header \in Headers(send_ms), payload_size \in PayloadSizes :
       IncomingPacket(header, payload_size)
  \/ \E header \in Headers(send_ms), payload_size \in PayloadSizes :
       IncomingPacketProbe(header, payload_size, kNotAProbe)
  \/ \E signal \in DetectorSignals, initialise \in BOOLEAN :
       LockedSection(signal, initialise)
  \/ LeaveCritScope
  \/ Notify
  \/ \E rtt \in Rtts : config_calls < MaxConfigCalls /\ OnRttUpdate(rtt, rtt)
  \/ \E ssrc \in Ssrcs : config_calls < MaxConfigCalls /\ RemoveStream(ssrc)
  \/ \E min_bitrate_bps \in MinBitrates :
       config_calls < MaxConfigCalls /\ SetMinBitrate(min_bitrate_bps)
  \/ config_calls < MaxConfigCalls /\ LatestEstimate

Spec == Init /\ [][Next]_vars

(***************************************************************************)
(* SpecEstimate: LatestEstimate and RemoveStream against packets of two    *)
(* SSRCs that all carry the extension                                      *)
(***************************************************************************)
NextEstimate ==
  \/ \E d \in TimeSteps : TimePasses(d)
  \/ \E header \in Headers(send_ms), payload_size \in PayloadSizes :
       header.hasAbsoluteSendTime /\ IncomingPacket(header, payload_size)
  \/ \E initialise \in BOOLEAN : LockedSection("within", initialise)
  \/ LeaveCritScope
  \/ Notify
  \/ \E ssrc \in Ssrcs : config_calls < MaxEstimateCalls /\ RemoveStream(ssrc)
  \/ config_calls < MaxEstimateCalls /\ LatestEstimate

SpecEstimate == Init /\ [][NextEstimate]_vars

(***************************************************************************)
(* SpecTimeout: two SSRCs that fall silent for about the stream timeout,   *)
(* and RemoveStream                                                        *)
(***************************************************************************)
NextTimeout ==
  \/ \E d \in SilenceSteps : TimePassesUntil(d, MaxSilenceMs)
  \/ \E header \in Headers(send_ms), payload_size \in PayloadSizes :
       header.hasAbsoluteSendTime /\ IncomingPacket(header, payload_size)
  \/ \E initialise \in BOOLEAN : LockedSection("within", initialise)
  \/ LeaveCritScope
  \/ Notify
  \/ \E ssrc \in Ssrcs : config_calls < MaxConfigCalls /\ RemoveStream(ssrc)

SpecTimeout == Init /\ [][NextTimeout]_vars

(***************************************************************************)
(* SpecProbe: a run of paced packets of one SSRC at the start of a call.   *)
(* SpecBurst: a longer run of fewer kinds on an uncongested path.          *)
(***************************************************************************)
\* A paced packet: how long after the previous packet it was sent and
\* received, its payload and its probe cluster.
Paced(send_delta_ms, recv_delta_ms, payload_size, probe_cluster_id) ==
  [send_delta_ms |-> send_delta_ms, recv_delta_ms |-> recv_delta_ms,
   payload_size |-> payload_size, probe_cluster_id |-> probe_cluster_id]

ProbeKinds ==
  { Paced(5, 6, 1200, 0),     \* 1200 bytes every 5 ms, received every 6 ms
    Paced(5, 12, 1200, 0),    \* queued on the way
    Paced(12, 6, 1200, 0) }   \* compressed on the way

\* A probe, and a packet too small to be taken as one.
BurstKinds ==
  { Paced(5, 6, 1200, 0), Paced(5, 6, 100, 0) }

\* The sender paces a packet and the 4-argument IncomingPacket gets it.
PacedPacket(kind, limit) ==
  /\ packets < limit
  /\ wall_ms' = wall_ms + kind.recv_delta_ms
  /\ send_ms' = send_ms + kind.send_delta_ms
  /\ IncomingPacketCall(wall_ms + kind.recv_delta_ms,
                        [ssrc |-> 1, hasAbsoluteSendTime |-> TRUE,
                         absoluteSendTime |->
                           ConvertMsTo24Bits(send_ms + kind.send_delta_ms)],
                        kind.payload_size, kind.probe_cluster_id)
  /\ UNCHANGED <<wrap_, feedback_, parser_,
                 analysis_, packet_>>

NextProbe ==
  \/ \E kind \in ProbeKinds : PacedPacket(kind, MaxProbeRun)
  \/ \E signal \in DetectorSignals : LockedSection(signal, FALSE)
  \/ LeaveCritScope
  \/ Notify

SpecProbe == Init /\ [][NextProbe]_vars

(***************************************************************************)
(* SpecDecision: two packets half a second apart, then small packets at    *)
(* the same pace or a run of probes                                        *)
(***************************************************************************)
DecisionKinds ==
  { Paced(500, 500, 1200, kNotAProbe),
    Paced(500, 500, 100, kNotAProbe),
    Paced(5, 6, 1200, 0) }

NextDecision ==
  \/ \E kind \in DecisionKinds : PacedPacket(kind, MaxDecisionPackets)
  \/ \E signal \in DetectorSignals, initialise \in BOOLEAN :
       LockedSection(signal, initialise)
  \/ LeaveCritScope
  \/ Notify

SpecDecision == Init /\ [][NextDecision]_vars

(***************************************************************************)
(* SpecClusters: ProcessClusters on probe lists made of runs of probes,    *)
(* each run of a cluster id of its own                                     *)
(***************************************************************************)
\* How the probes of a run are paced: 1200 bytes every 5 ms received every
\* 6 ms (1.6 Mbps), received every 12 ms (queued), sent at once (mean send
\* delta 0), and every 10 ms (960 kbps).
RunKinds ==
  { Paced(5, 6, 1200, 0), Paced(5, 12, 1200, 0), Paced(0, 6, 1200, 0),
    Paced(10, 10, 1200, 0) }
\* A run of any kind that is enough for a cluster, or a run that is one
\* or two probes short of a cluster.
Runs ==
  [kind : RunKinds, n : {kMinClusterSize}]
    \cup [kind : {Paced(5, 6, 1200, 0)},
          n : {kMinClusterSize - 2, kMinClusterSize - 1}]

\* The n probes of a run of cluster `id` that follow the probe `last`.
RunProbes(run, id, last) ==
  [j \in 1..run.n |->
     Probe(last.send_time_ms + j * run.kind.send_delta_ms,
           last.recv_time_ms + j * run.kind.recv_delta_ms,
           run.kind.payload_size, id)]

RECURSIVE AppendRuns(_, _, _)
AppendRuns(runs, k, probes) ==
  IF k > Len(runs) THEN probes
  ELSE AppendRuns(runs, k + 1,
                  probes \o RunProbes(runs[k], k - 1, probes[Len(probes)]))

\* probes_ after the runs: a first probe of cluster 0, then the runs.
ProbeList(runs) ==
  AppendRuns(runs, 1, <<Probe(0, 0, runs[1].kind.payload_size, 0)>>)

\* The lists fed: before its last probe was pushed, a list without a
\* cluster held fewer than kMaxProbePackets probes, the oldest being popped
\* at each call from there on (lines 157-158).
FedToProcessClusters(probes) ==
  \/ Len(probes) <= kMaxProbePackets
  \/ ComputeClusters(SubSeq(probes, 1, Len(probes) - 1)) # <<>>

RunLists ==
  {runs \in UNION {[1..k -> Runs] : k \in 1..MaxRuns} :
     FedToProcessClusters(ProbeList(runs))}

\* remote_rate_ when the list is analysed: without an estimate, or with one
\* of 1 Mbps.
RateControls ==
  {NewAimdRateControl, SetEstimate(NewAimdRateControl, 1000000, 0)}

\* ProcessClusters(now_ms) on the probe list, now_ms the arrival time of its
\* last probe.
ProcessClustersCall(probes, rc) ==
  /\ analysis_' =
       [ran |-> TRUE, probes |-> probes, rc |-> rc,
        pr |-> ProcessClusters(probes, rc, probes[Len(probes)].recv_time_ms)]
  /\ UNCHANGED <<estimator_vars, crit_, pc, call, observer_, warnings_,
                 estimate_, wall_ms, send_ms, packets, fed_ms, config_calls,
                 unguarded_, locked_, emptied_, wrap_, feedback_, parser_,
                 packet_>>

\* One list is analysed in a run.
NextClusters ==
  /\ ~analysis_.ran
  /\ \E runs \in RunLists, rc \in RateControls :
       ProcessClustersCall(ProbeList(runs), rc)

SpecClusters == Init /\ [][NextClusters]_vars

(***************************************************************************)
(* SpecGate: packets of one SSRC, with and without a probe cluster, around *)
(* the end of the initial probing interval and across a stream timeout     *)
(***************************************************************************)
GateSteps == {600, 800, 2001}
GatePayloadSizes == {kMinProbePacketSize, 1200}
GateClusterIds == {kNotAProbe, 0}

\* IncomingPacket(arrival_time_ms, payload_size, header, probe_cluster_id)
\* on a packet of SSRC 1 that carries the extension.
GatePacket(payload_size, probe_cluster_id) ==
  /\ packets < MaxGatePackets
  /\ fed_ms < wall_ms
  /\ IncomingPacketCall(wall_ms,
                        [ssrc |-> 1, hasAbsoluteSendTime |-> TRUE,
                         absoluteSendTime |-> ConvertMsTo24Bits(send_ms)],
                        payload_size, probe_cluster_id)
  /\ UNCHANGED <<wall_ms, send_ms, wrap_, feedback_, parser_,
                 analysis_, packet_>>

NextGate ==
  \/ \E d \in GateSteps : TimePassesUntil(d, MaxGateMs)
  \/ \E payload_size \in GatePayloadSizes,
        probe_cluster_id \in GateClusterIds :
       GatePacket(payload_size, probe_cluster_id)
  \/ \E initialise \in BOOLEAN : LockedSection("within", initialise)
  \/ LeaveCritScope
  \/ Notify

SpecGate == Init /\ [][NextGate]_vars

(***************************************************************************)
(* RtpHeaderParser::ParseOneByteExtensionHeader (rtp_utility.cc).  The     *)
(* block is a sequence of bytes, ptr an index into it, and                 *)
(* ptrRTPDataExtensionEnd the index after its last byte.                   *)
(***************************************************************************)
kInvalidType == "kInvalidType"
kRtpExtensionTransmissionTimeOffset == "kRtpExtensionTransmissionTimeOffset"
kRtpExtensionAudioLevel == "kRtpExtensionAudioLevel"
kRtpExtensionAbsoluteSendTime == "kRtpExtensionAbsoluteSendTime"
kRtpExtensionVideoRotation == "kRtpExtensionVideoRotation"
kRtpExtensionTransportSequenceNumber == "kRtpExtensionTransportSequenceNumber"
kRtpExtensionPlayoutDelay == "kRtpExtensionPlayoutDelay"
kRtpExtensionFrameMarking == "kRtpExtensionFrameMarking"

kPlayoutDelayGranularityMs == 10

\* ptrExtensionMap->GetType(id) for the map the receiver registered: ids 1
\* to 7 are mapped, the others are not.
GetType(id) ==
  IF id \in 1..7
    THEN <<kRtpExtensionTransmissionTimeOffset, kRtpExtensionAudioLevel,
           kRtpExtensionAbsoluteSendTime, kRtpExtensionVideoRotation,
           kRtpExtensionTransportSequenceNumber, kRtpExtensionPlayoutDelay,
           kRtpExtensionFrameMarking>>[id]
    ELSE kInvalidType

\* header->extension as RtpHeaderParser::Parse leaves it before the
\* extension block is parsed (lines 234-253), the fields Parse does not
\* write as the constructor of RTPHeader leaves them.
NewHeaderExtension ==
  [hasTransmissionTimeOffset |-> FALSE, transmissionTimeOffset |-> 0,
   hasAbsoluteSendTime |-> FALSE, absoluteSendTime |-> 0,
   hasAudioLevel |-> FALSE, voiceActivity |-> FALSE, audioLevel |-> 0,
   hasVideoRotation |-> FALSE, videoRotation |-> 0,
   hasTransportSequenceNumber |-> FALSE, transportSequenceNumber |-> 0,
   playout_delay |-> [min_ms |-> -1, max_ms |-> -1],
   frameMarks |-> [startOfFrame |-> 0, endOfFrame |-> 0, independent |-> 0,
                   discardable |-> 0, baseLayerSync |-> 0,
                   temporalLayerId |-> 0, spatialLayerId |-> 0,
                   tl0PicIdx |-> 0]]

\* byte & mask for a mask that is one bit, and for the low bits below one.
BitOf(byte, bit) == ((byte \div bit) % 2) * bit
LowBits(byte, bit) == byte % bit

\* ConvertCVOByteToVideoRotation(ptr[0]): the rotation is the two low bits
\* of the byte.
ConvertCVOByteToVideoRotation(cvo_byte) == LowBits(cvo_byte, 4)

\* ByteReader<uint32_t, 3>::ReadBigEndian(ptr)
ReadBigEndian3(bytes, ptr) ==
  bytes[ptr] * 65536 + bytes[ptr + 1] * 256 + bytes[ptr + 2]

\* The length check that opens each case of the switch: whether the case
\* goes on to set its fields.
LengthAccepted(type, len) ==
  IF type = kRtpExtensionTransmissionTimeOffset THEN ~(len # 2)
  ELSE IF type = kRtpExtensionAudioLevel THEN ~(len # 0)
  ELSE IF type = kRtpExtensionAbsoluteSendTime THEN ~(len # 2)
  ELSE IF type = kRtpExtensionVideoRotation THEN ~(len # 0)
  ELSE IF type = kRtpExtensionTransportSequenceNumber THEN ~(len # 1)
  ELSE IF type = kRtpExtensionPlayoutDelay THEN ~(len # 2)
  ELSE ~(len # 1 /\ len # 3)

\* The body of the case of `type` after its length check: the header
\* extension with the fields of the element at ptr set.
SetExtension(extension, type, len, bytes, ptr) ==
  IF type = kRtpExtensionTransmissionTimeOffset
    THEN [extension EXCEPT
            !.transmissionTimeOffset = ReadBigEndian3(bytes, ptr),
            !.hasTransmissionTimeOffset = TRUE]
  ELSE IF type = kRtpExtensionAudioLevel
    THEN [extension EXCEPT
            !.audioLevel = LowBits(bytes[ptr], 128),
            !.voiceActivity = (BitOf(bytes[ptr], 128) # 0),
            !.hasAudioLevel = TRUE]
  ELSE IF type = kRtpExtensionAbsoluteSendTime
    THEN [extension EXCEPT
            !.absoluteSendTime = ReadBigEndian3(bytes, ptr),
            !.hasAbsoluteSendTime = TRUE]
  ELSE IF type = kRtpExtensionVideoRotation
    THEN [extension EXCEPT
            !.hasVideoRotation = TRUE,
            !.videoRotation = ConvertCVOByteToVideoRotation(bytes[ptr])]
  ELSE IF type = kRtpExtensionTransportSequenceNumber
    THEN [extension EXCEPT
            !.transportSequenceNumber =
               (bytes[ptr] * 256 + bytes[ptr + 1]) % 65536,
            !.hasTransportSequenceNumber = TRUE]
  ELSE IF type = kRtpExtensionPlayoutDelay
    THEN [extension EXCEPT
            !.playout_delay =
               [min_ms |-> (bytes[ptr] * 16 + ((bytes[ptr + 1] \div 16) % 16))
                             * kPlayoutDelayGranularityMs,
                max_ms |-> ((bytes[ptr + 1] % 16) * 256 + bytes[ptr + 2])
                             * kPlayoutDelayGranularityMs]]
  ELSE [extension EXCEPT
          !.frameMarks =
             [startOfFrame |-> BitOf(bytes[ptr], 128),
              endOfFrame |-> BitOf(bytes[ptr], 64),
              independent |-> BitOf(bytes[ptr], 32),
              discardable |-> BitOf(bytes[ptr], 16),
              baseLayerSync |->
                IF len = 3 THEN BitOf(bytes[ptr], 8) ELSE 0,
              temporalLayerId |->
                IF len = 3 THEN LowBits(bytes[ptr], 8) ELSE 0,
              spatialLayerId |-> IF len = 3 THEN bytes[ptr + 1] ELSE 0,
              tl0PicIdx |-> IF len = 3 THEN bytes[ptr + 2] ELSE 0]]

\* How many bytes of data the case of `type` reads after its length check:
\* ptr[0] to ptr[2], ptr[0], or ptr[0] and ptr[1].
CaseReads(type, len) ==
  IF type \in {kRtpExtensionTransmissionTimeOffset,
               kRtpExtensionAbsoluteSendTime, kRtpExtensionPlayoutDelay}
    THEN 3
  ELSE IF type \in {kRtpExtensionAudioLevel, kRtpExtensionVideoRotation}
    THEN 1
  ELSE IF type = kRtpExtensionTransportSequenceNumber THEN 2
  ELSE IF len = 3 THEN 3 ELSE 1

\* The parse of a block into the header extension `extension`: the places
\* of the ID bytes the loop has read, of the elements whose case has set its
\* fields and of every byte read, why the function returned and where.
ParseInto(extension) ==
  [extension |-> extension, visited |-> {}, applied |-> {}, reads |-> {},
   ended |-> "end", stopped_at |-> 0]

\* The parse of a block into the header of a new RTPHeader.
NewParse == ParseInto(NewHeaderExtension)

RECURSIVE ExtensionLoop(_, _, _)

\* A wrong length that only skips its element.
SkipWrongLength(parse, bytes, ptr, len) ==
  ExtensionLoop(parse, bytes, ptr + (len + 1))

\* The return of a case whose length check fails.
ReturnOnWrongLength(parse, bytes, ptr, len) ==
  [parse EXCEPT !.ended = "length", !.stopped_at = ptr - 1]

\* The while loop of ParseOneByteExtensionHeader from ptr on (lines
\* 306-506).
ExtensionLoop(parse, bytes, ptr) ==
  IF ~((Len(bytes) + 1) - ptr > 0) THEN parse
  ELSE IF bytes[ptr] \div 16 = 0
    THEN ExtensionLoop([parse EXCEPT !.visited = @ \cup {ptr},
                                     !.reads = @ \cup {ptr}],
                       bytes, ptr + 1)
  ELSE IF bytes[ptr] \div 16 = 15
    THEN [parse EXCEPT !.visited = @ \cup {ptr}, !.reads = @ \cup {ptr},
                       !.ended = "terminator", !.stopped_at = ptr]
  ELSE IF (Len(bytes) + 1) - (ptr + 1) < (bytes[ptr] % 16) + 1
    THEN [parse EXCEPT !.visited = @ \cup {ptr}, !.reads = @ \cup {ptr},
                       !.ended = "short", !.stopped_at = ptr]
  ELSE IF GetType(bytes[ptr] \div 16) = kInvalidType
    THEN ExtensionLoop([parse EXCEPT !.visited = @ \cup {ptr},
                                     !.reads = @ \cup {ptr}],
                       bytes, ptr + 1 + ((bytes[ptr] % 16) + 1))
  ELSE IF LengthAccepted(GetType(bytes[ptr] \div 16), bytes[ptr] % 16)
    THEN ExtensionLoop(
           [parse EXCEPT
              !.visited = @ \cup {ptr},
              !.reads =
                 @ \cup (ptr..(ptr + CaseReads(GetType(bytes[ptr] \div 16),
                                               bytes[ptr] % 16))),
              !.applied = @ \cup {ptr},
              !.extension = SetExtension(@, GetType(bytes[ptr] \div 16),
                                         bytes[ptr] % 16, bytes, ptr + 1)],
           bytes, ptr + 1 + ((bytes[ptr] % 16) + 1))
  ELSE ReturnOnWrongLength([parse EXCEPT !.visited = @ \cup {ptr},
                                         !.reads = @ \cup {ptr}],
                           bytes, ptr + 1, bytes[ptr] % 16)

\* ParseOneByteExtensionHeader(header, ptrExtensionMap,
\* ptrRTPDataExtensionEnd, ptr) with a map, on the block `bytes`.
ParseOneByteExtensionHeader(bytes) == ExtensionLoop(NewParse, bytes, 1)

(***************************************************************************)
(* SpecParse: extension blocks of a few elements                           *)
(***************************************************************************)
\* The data bytes of an element, as many as it needs.
DataBytes == <<81, 35, 69, 103>>

\* The ids and length fields of the elements fed: padding, the seven mapped
\* ids, an id that is not mapped, and the terminator.
ExtensionIds == {0, 1, 2, 3, 4, 5, 6, 7, 9, 15}
ElementKinds == [id : ExtensionIds, len : 0..3]

\* The bytes of an element: its ID/len byte and len + 1 bytes of data; a
\* padding byte stands alone.
ElementBytes(e) ==
  IF e.id = 0 THEN <<e.len>>
  ELSE <<e.id * 16 + e.len>> \o SubSeq(DataBytes, 1, e.len + 1)

RECURSIVE EncodeElements(_, _)
EncodeElements(elements, i) ==
  IF i > Len(elements) THEN <<>>
  ELSE ElementBytes(elements[i]) \o EncodeElements(elements, i + 1)

\* Where the ID/len byte of element i stands in the block.
ElementOffset(elements, i) ==
  Len(EncodeElements(SubSeq(elements, 1, i - 1), 1)) + 1

\* The block is XLen = 4 * n bytes (lines 277-279): the elements followed by
\* padding up to whole words, or, for a length field that is too small, cut
\* down to whole words.
BlockBytes(block) ==
  IF block.cut
    THEN SubSeq(EncodeElements(block.elements, 1), 1,
                (Len(EncodeElements(block.elements, 1)) \div 4) * 4)
    ELSE EncodeElements(block.elements, 1)
           \o [i \in 1..((4 - (Len(EncodeElements(block.elements, 1)) % 4)) % 4)
                |-> 0]

Blocks ==
  [elements : UNION {[1..n -> ElementKinds] : n \in 1..MaxElements},
   cut : BOOLEAN]

\* RtpHeaderParser::Parse on a packet whose extension block is `block`: the
\* header extension is initialised and the block is parsed.
ParseBlock(block) ==
  /\ parser_' =
       [block |-> block, bytes |-> BlockBytes(block), parsed |-> TRUE,
        parse |-> ParseOneByteExtensionHeader(BlockBytes(block))]
  /\ UNCHANGED <<estimator_vars, crit_, pc, call, observer_, warnings_,
                 estimate_, wall_ms, send_ms, packets, fed_ms, config_calls,
                 unguarded_, locked_, emptied_, wrap_, feedback_,
                 analysis_, packet_>>

\* One packet is parsed in a run.
NextParse == ~parser_.parsed /\ \E block \in Blocks : ParseBlock(block)

SpecParse == Init /\ [][NextParse]_vars

(***************************************************************************)
(* RtpHeaderParser::RTCP, ParseRtcp and Parse (rtp_utility.cc).  The       *)
(* buffer is a sequence of bytes; _ptrRTPDataBegin[i] is the byte at       *)
(* offset i, and _ptrRTPDataEnd is the offset Len(data).  Each function    *)
(* gives, with its result, the offsets of the bytes it has read.           *)
(***************************************************************************)
kRtcpExpectedVersion == 2
kRtcpMinHeaderLength == 4
kRtcpMinParseLength == 8
kRtpExpectedVersion == 2
kRtpMinParseLength == 12
kRtpOneByteHeaderExtensionId == 48862

\* The places of header->arrOfCSRCs that CC, four bits, can name.
CsrcPlaces == 1..15

\* _ptrRTPDataBegin[offset].  A read outside the buffer gives whatever byte
\* lies there, `beyond`.
ByteAt(data, offset, beyond) ==
  IF offset + 1 \in DOMAIN data THEN data[offset + 1] ELSE beyond

\* ByteReader<uint16_t>::ReadBigEndian and ByteReader<uint32_t>::ReadBigEndian
ReadBigEndian2(data, offset, beyond) ==
  ByteAt(data, offset, beyond) * 256 + ByteAt(data, offset + 1, beyond)

ReadBigEndian4(data, offset, beyond) ==
  ReadBigEndian2(data, offset, beyond) * 65536
    + ReadBigEndian2(data, offset + 2, beyond)

\* An RTPHeader as its constructor leaves it.
NewRTPHeader ==
  [markerBit |-> FALSE, payloadType |-> 0, sequenceNumber |-> 0,
   timestamp |-> 0, ssrc |-> 0, numCSRCs |-> 0,
   arrOfCSRCs |-> [i \in CsrcPlaces |-> 0], paddingLength |-> 0,
   headerLength |-> 0, extension |-> NewHeaderExtension]

\* What a call of the parser gives: its return value, the header object
\* after it, the offsets read, the offsets the extension parser has read,
\* and the declared extension block (its first offset and its length in
\* bytes, -1 when no block was reached).
ParserResult(ret, header, reads) ==
  [ret |-> ret, header |-> header, reads |-> reads, extension_reads |-> {},
   block_begin |-> -1, block_length |-> -1]

\* RtpHeaderParser::RTCP() (lines 79-150)
RTCP(data, beyond) ==
  IF Len(data) < kRtcpMinHeaderLength THEN [ret |-> FALSE, reads |-> {}]
  ELSE IF ByteAt(data, 0, beyond) \div 64 # kRtcpExpectedVersion
    THEN [ret |-> FALSE, reads |-> {0}]
  ELSE [ret |-> ByteAt(data, 1, beyond) \in ({192, 195} \cup (200..207)),
        reads |-> {0, 1}]

\* RtpHeaderParser::ParseRtcp(header) (lines 152-177)
ParseRtcp(header, data, beyond) ==
  IF Len(data) < kRtcpMinParseLength THEN ParserResult(FALSE, header, {})
  ELSE IF ByteAt(data, 0, beyond) \div 64 # kRtcpExpectedVersion
    THEN ParserResult(FALSE, header, {0})
  ELSE ParserResult(TRUE,
         [header EXCEPT
            !.payloadType = ByteAt(data, 1, beyond),
            !.ssrc = ReadBigEndian4(data, 4, beyond),
            !.headerLength = 4 + ReadBigEndian2(data, 2, beyond) * 4],
         0..7)

\* The header extension after lines 234-254 of Parse: the fields the lines
\* assign, the others as they were.
InitialiseExtension(extension) ==
  [extension EXCEPT
     !.hasTransmissionTimeOffset = FALSE, !.transmissionTimeOffset = 0,
     !.hasAbsoluteSendTime = FALSE, !.absoluteSendTime = 0,
     !.hasAudioLevel = FALSE, !.voiceActivity = FALSE, !.audioLevel = 0,
     !.hasVideoRotation = FALSE, !.videoRotation = 0,
     !.playout_delay = [min_ms |-> -1, max_ms |-> -1]]

\* The header after lines 218-254 of Parse.
FixedHeader(header, data, beyond) ==
  [header EXCEPT
     !.markerBit = (BitOf(ByteAt(data, 1, beyond), 128) # 0),
     !.payloadType = LowBits(ByteAt(data, 1, beyond), 128),
     !.sequenceNumber = ReadBigEndian2(data, 2, beyond),
     !.timestamp = ReadBigEndian4(data, 4, beyond),
     !.ssrc = ReadBigEndian4(data, 8, beyond),
     !.numCSRCs = LowBits(ByteAt(data, 0, beyond), 16),
     !.paddingLength =
        IF BitOf(ByteAt(data, 0, beyond), 32) # 0
          THEN ByteAt(data, Len(data) - 1, beyond) ELSE 0,
     !.arrOfCSRCs =
        [i \in CsrcPlaces |->
           IF i <= LowBits(ByteAt(data, 0, beyond), 16)
             THEN ReadBigEndian4(data, 12 + 4 * (i - 1), beyond)
             ELSE @[i]],
     !.headerLength = 12 + LowBits(ByteAt(data, 0, beyond), 16) * 4,
     !.extension = InitialiseExtension(@)]

\* The offsets lines 187-230 of Parse read.
FixedReads(data, beyond) ==
  (0..11)
    \cup (IF BitOf(ByteAt(data, 0, beyond), 32) # 0
            THEN {Len(data) - 1} ELSE {})
    \cup (12..(12 + LowBits(ByteAt(data, 0, beyond), 16) * 4 - 1))

\* Lines 293-296 of Parse.
FinishParse(result, data) ==
  [result EXCEPT
     !.ret = ~(result.header.headerLength + result.header.paddingLength
                 > Len(data))]

\* The extension block of XLen bytes that starts at offset ptr.
ExtensionBlock(data, ptr, XLen, beyond) ==
  [i \in 1..XLen |-> ByteAt(data, ptr + (i - 1), beyond)]

\* Lines 284-291 of Parse: the block at ptr is parsed into the header when
\* it is of the one-byte profile (and, lines 304-306, there is a map).
ParseExtensionBlock(result, map, definedByProfile, data, ptr, XLen, beyond) ==
  IF definedByProfile = kRtpOneByteHeaderExtensionId /\ map # "NULL"
    THEN [result EXCEPT
            !.header.extension =
               ExtensionLoop(ParseInto(@),
                             ExtensionBlock(data, ptr, XLen, beyond),
                             1).extension,
            !.extension_reads =
               {ptr + (r - 1) :
                  r \in ExtensionLoop(ParseInto(result.header.extension),
                                      ExtensionBlock(data, ptr, XLen, beyond),
                                      1).reads},
            !.block_begin = ptr, !.block_length = XLen,
            !.header.headerLength = @ + XLen]
    ELSE [result EXCEPT !.block_begin = ptr, !.block_length = XLen,
                        !.header.headerLength = @ + XLen]

\* The check of line 281 left out.
BlockAlwaysFits(remain, XLen) == FALSE

\* Line 281 of Parse: the declared block does not fit in what remains.
BlockTooLong(remain, XLen) == remain < 4 + XLen

\* Lines 256-292 of Parse, for a packet with the X bit, the extension
\* header at offset ptr.
ParseExtension(result, map, data, ptr, beyond) ==
  IF Len(data) - ptr < 4 THEN result
  ELSE IF BlockTooLong(Len(data) - ptr,
                       ReadBigEndian2(data, ptr + 2, beyond) * 4)
    THEN [result EXCEPT !.header.headerLength = @ + 4,
                        !.reads = @ \cup (ptr..(ptr + 3))]
  ELSE FinishParse(
         ParseExtensionBlock(
           [result EXCEPT !.header.headerLength = @ + 4,
                          !.reads = @ \cup (ptr..(ptr + 3))],
           map, ReadBigEndian2(data, ptr, beyond), data, ptr + 4,
           ReadBigEndian2(data, ptr + 2, beyond) * 4, beyond),
         data)

\* RtpHeaderParser::Parse(header, ptrExtensionMap) (lines 179-297)
Parse(header, map, data, beyond) ==
  IF Len(data) < kRtpMinParseLength THEN ParserResult(FALSE, header, {})
  ELSE IF ByteAt(data, 0, beyond) \div 64 # kRtpExpectedVersion
    THEN ParserResult(FALSE, header, 0..11)
  ELSE IF 12 + LowBits(ByteAt(data, 0, beyond), 16) * 4 > Len(data)
    THEN ParserResult(FALSE, header, 0..11)
  ELSE IF BitOf(ByteAt(data, 0, beyond), 16) # 0
    THEN ParseExtension(
           ParserResult(FALSE, FixedHeader(header, data, beyond),
                        FixedReads(data, beyond)),
           map, data, 12 + LowBits(ByteAt(data, 0, beyond), 16) * 4, beyond)
  ELSE FinishParse(ParserResult(FALSE, FixedHeader(header, data, beyond),
                                FixedReads(data, beyond)),
                   data)

(***************************************************************************)
(* SpecPacket: whole buffers handed to the header parser                   *)
(***************************************************************************)
\* The bytes after the extension header of a packet: elements, zero bytes
\* up to the longest block a length field declares, and two bytes of payload
\* the last of which is the padding count.
TrailingBytes(elements, padding) ==
  SubSeq(EncodeElements(elements, 1) \o [i \in 1..(4 * MaxXLen) |-> 0],
         1, 4 * MaxXLen)
    \o <<7, padding>>

\* The element lists of the packets fed: an absolute send time; a transport
\* sequence number and a frame marking; an absolute send time with a
\* transport sequence number in the second word; a long frame marking; a
\* transmission time offset of the wrong length.
PacketElements ==
  {<<[id |-> 3, len |-> 2]>>,
   <<[id |-> 5, len |-> 1], [id |-> 7, len |-> 1]>>,
   <<[id |-> 3, len |-> 2], [id |-> 5, len |-> 1]>>,
   <<[id |-> 7, len |-> 3]>>,
   <<[id |-> 1, len |-> 1]>>}

\* The packets fed: the bits of the first byte, the second byte (an RTP
\* payload type, or the packet type of an RTCP sender report), the profile
\* and length fields of the extension header, the elements, the padding
\* count.  A packet without the X bit has no extension header.
Packets ==
  [V : {1, 2}, P : BOOLEAN, X : {FALSE}, CC : 0..MaxCsrcs, PT : {96, 200},
   profile : {kRtpOneByteHeaderExtensionId}, words : {0},
   elements : {<<>>}, padding : {0, 2, 40}]
  \cup
  [V : {2}, P : BOOLEAN, X : {TRUE}, CC : 0..MaxCsrcs, PT : {96},
   profile : {kRtpOneByteHeaderExtensionId, 4096}, words : 0..MaxXLen,
   elements : PacketElements, padding : {0, 2, 40}]

\* The bytes of a packet.
PacketBytes(packet) ==
  <<packet.V * 64 + (IF packet.P THEN 32 ELSE 0)
      + (IF packet.X THEN 16 ELSE 0) + packet.CC,
    packet.PT, 0, 2, 0, 0, 11, 184, 0, 0, 48, 57>>
    \o [i \in 1..(4 * packet.CC) |-> i]
    \o (IF packet.X
          THEN <<packet.profile \div 256, packet.profile % 256,
                 0, packet.words>>
                 \o TrailingBytes(packet.elements, packet.padding)
          ELSE <<7, packet.padding>>)

\* The header of a packet that carries a transport sequence number and a
\* frame marking, as a Parse with the map leaves it.
HeaderOfEarlierPacket ==
  Parse(NewRTPHeader, "map",
        PacketBytes([V |-> 2, P |-> FALSE, X |-> TRUE, CC |-> 0, PT |-> 96,
                     profile |-> kRtpOneByteHeaderExtensionId, words |-> 2,
                     elements |-> <<[id |-> 5, len |-> 1],
                                    [id |-> 7, len |-> 1]>>,
                     padding |-> 0]),
        0).header

\* The RTPHeader objects the caller hands in: a new one, or the one an
\* earlier packet was parsed into.
PreviousHeaders == {NewRTPHeader, HeaderOfEarlierPacket}

\* The buffer `data` is handed to RtpHeaderParser, and RTCP(), ParseRtcp
\* and Parse are each called on it with the RTPHeader `header`.
ParsePacket(header, map, data, beyond) ==
  /\ packet_' =
       [parsed |-> TRUE, data |-> data, map |-> map, previous |-> header,
        is_rtcp |-> RTCP(data, beyond),
        rtcp |-> ParseRtcp(header, data, beyond),
        rtp |-> Parse(header, map, data, beyond)]
  /\ UNCHANGED <<estimator_vars, crit_, pc, call, observer_, warnings_,
                 estimate_, wall_ms, send_ms, packets, fed_ms, config_calls,
                 unguarded_, locked_, emptied_, wrap_, feedback_, parser_,
                 analysis_>>

\* One buffer is parsed in a run: a packet, whole or cut short.
NextPacket ==
  /\ ~packet_.parsed
  /\ \E packet \in Packets, header \in PreviousHeaders,
        map \in {"NULL", "map"}, beyond \in {0, 255} :
       \E length \in 0..Len(PacketBytes(packet)) :
         ParsePacket(header, map, SubSeq(PacketBytes(packet), 1, length),
                     beyond)

SpecPacket == Init /\ [][NextPacket]_vars

(***************************************************************************)
(* SpecBatch: feedback vectors whose elements name two SSRCs               *)
(***************************************************************************)
\* The SSRC that takes the place of the element's in the call.
FeedbackSsrcOfElement(packet_info) == packet_info.ssrc

\* The ssrc argument IncomingPacketFeedbackVector passes to
\* IncomingPacketInfo for an element (line 201).
FeedbackSsrc(packet_info) == 0

\* The elements a feedback report can hold for the packets sent since
\* send_time_ms and received since arrival_time_ms, in the order of arrival.
PacketInfos(i, send_time_ms, arrival_time_ms) ==
  [arrival_time_ms : {arrival_time_ms + 6 * i},
   send_time_ms : {send_time_ms + 5 * i},
   payload_size : PayloadSizes, ssrc : Ssrcs,
   probe_cluster_id : {kNotAProbe, 0}]

FeedbackVectors(send_time_ms, arrival_time_ms) ==
  UNION {{v \in [1..n -> PacketInfos(1, send_time_ms, arrival_time_ms)
                         \cup PacketInfos(2, send_time_ms, arrival_time_ms)] :
            \A i \in 1..n :
               v[i] \in PacketInfos(i, send_time_ms, arrival_time_ms)} :
         n \in 1..MaxVectorLen}

\* One iteration of the loop of IncomingPacketFeedbackVector, up to the
\* locked section of IncomingPacketInfo.
FeedbackIteration(packet_info) ==
  /\ packets < MaxBatchPackets
  /\ packets' = packets + 1
  /\ fed_ms' = packet_info.arrival_time_ms
  /\ BeginPacketInfo(packet_info.arrival_time_ms,
                     ConvertMsTo24Bits(packet_info.send_time_ms),
                     packet_info.payload_size, FeedbackSsrc(packet_info),
                     packet_info.probe_cluster_id)
  /\ UNCHANGED <<warnings_, config_calls, wrap_, parser_,
                 analysis_, packet_>>

\* DelayBasedBwe::IncomingPacketFeedbackVector(packet_feedback_vector): the
\* call and the first iteration of its loop.
IncomingPacketFeedbackVector(packet_feedback_vector) ==
  /\ pc = "idle"
  /\ feedback_.next = Len(feedback_.vector)
  /\ packets + Len(packet_feedback_vector) <= MaxBatchPackets
  /\ feedback_' = [vector |-> packet_feedback_vector, next |-> 1]
  /\ wall_ms' = wall_ms + 6 * Len(packet_feedback_vector)
  /\ send_ms' = send_ms + 5 * Len(packet_feedback_vector)
  /\ FeedbackIteration(packet_feedback_vector[1])

\* The next iteration of the loop, once IncomingPacketInfo has returned.
FeedbackVectorNext ==
  /\ pc = "idle"
  /\ feedback_.next < Len(feedback_.vector)
  /\ feedback_' = [feedback_ EXCEPT !.next = @ + 1]
  /\ FeedbackIteration(feedback_.vector[feedback_.next + 1])
  /\ UNCHANGED <<wall_ms, send_ms>>

NextBatch ==
  \/ \E packet_feedback_vector \in FeedbackVectors(send_ms, wall_ms) :
       IncomingPacketFeedbackVector(packet_feedback_vector)
  \/ FeedbackVectorNext
  \/ \E initialise \in BOOLEAN : LockedSection("within", initialise)
  \/ LeaveCritScope
  \/ Notify

SpecBatch == Init /\ [][NextBatch]_vars

(***************************************************************************)
(* SpecWrap: the same paced packets fed to two estimators one after the    *)
(* other, the sender's 24-bit clock starting at 0 for the first and at     *)
(* 2^24 - 10 for the second                                                *)
(***************************************************************************)
\* The 24-bit send time of the first packet of the second run.
WrapStart == Pow2(24) - 10

WrapKinds ==
  { Paced(5, 6, 1200, 0), Paced(12, 6, 1200, 0) }

\* What the observer was given: the arguments of each callback, and the
\* packet and the arrival time it was made for.
CallbackLog(log) ==
  [i \in 1..Len(log) |->
     [ssrcs |-> log[i].ssrcs, bitrate_bps |-> log[i].bitrate_bps,
      packet |-> log[i].packet, now_ms |-> log[i].now_ms]]

\* The 24-bit absolute send time of a packet sent relative_ms after the first
\* packet of a run whose first packet carries `start`.
AbsoluteSendTime(start, relative_ms) ==
  (start + ConvertMsTo24Bits(relative_ms)) % Pow2(24)

\* The sender paces a packet, the first of a run at its relative time 0; in
\* the second run it is the packet the first run had at this place.
WrapPacket(kind) ==
  /\ packets < MaxWrapRun
  /\ wrap_.second =>
       /\ packets < Len(wrap_.reference_fed)
       /\ kind = wrap_.reference_fed[packets + 1]
  /\ wall_ms' = wall_ms + kind.recv_delta_ms
  /\ send_ms' = IF packets = 0 THEN 0 ELSE send_ms + kind.send_delta_ms
  /\ wrap_' = [wrap_ EXCEPT !.fed = Append(@, kind)]
  /\ UNCHANGED <<feedback_, parser_,
                 analysis_, packet_>>
  /\ IncomingPacketCall(
       wall_ms + kind.recv_delta_ms,
       [ssrc |-> 1, hasAbsoluteSendTime |-> TRUE,
        absoluteSendTime |->
          AbsoluteSendTime(wrap_.start,
                           IF packets = 0 THEN 0
                           ELSE send_ms + kind.send_delta_ms)],
       kind.payload_size, kind.probe_cluster_id)

\* DelayBasedBwe::DelayBasedBwe(observer) once more: a new estimator and a
\* new observer, for a sender whose clock starts at WrapStart; what the
\* first run was fed and what its observer was given are kept.
SecondRun ==
  /\ pc = "idle"
  /\ ~wrap_.second
  /\ packets >= 1
  /\ ssrcs_' = {}
  /\ probes_' = <<>>
  /\ total_probes_received_' = 0
  /\ first_packet_time_ms_' = -1
  /\ last_update_ms_' = -1
  /\ inter_arrival_' = NULL
  /\ estimator_' = NULL
  /\ detector_' = NewOveruseDetector
  /\ incoming_bitrate_' = NewRateStatistics
  /\ remote_rate_' = NewAimdRateControl
  /\ crit_' = "free"
  /\ pc' = "idle"
  /\ call' = NoCall
  /\ observer_' = <<>>
  /\ wall_ms' = 0
  /\ send_ms' = 0
  /\ packets' = 0
  /\ fed_ms' = -1
  /\ locked_' = NoLocked
  /\ emptied_' = FALSE
  /\ wrap_' = [start |-> WrapStart, fed |-> <<>>, second |-> TRUE,
               reference_fed |-> wrap_.fed,
               reference_log |-> CallbackLog(observer_)]
  /\ UNCHANGED <<warnings_, estimate_, config_calls, unguarded_, feedback_,
                 parser_,
                 analysis_, packet_>>

NextWrap ==
  \/ \E kind \in WrapKinds : WrapPacket(kind)
  \/ LockedSection("within", FALSE)
  \/ LeaveCritScope
  \/ Notify
  \/ SecondRun

SpecWrap == Init /\ [][NextWrap]_vars

NextBurst ==
  \/ \E kind \in BurstKinds :
       /\ \/ kind.payload_size > kMinProbePacketSize
          \/ packets - total_probes_received_ < MaxSmall
       /\ PacedPacket(kind, MaxBurst)
  \/ LockedSection("within", FALSE)
  \/ LeaveCritScope
  \/ Notify

SpecBurst == Init /\ [][NextBurst]_vars

(***************************************************************************)
(* Properties                                                              *)
(***************************************************************************)
Calls == 1..Len(observer_)

\* C1: a call of either IncomingPacket overload on a header without the
\* absolute send time (the call that logs the warning) invokes no observer
\* and leaves the SSRC map, the probe list, the rate counter,
\* first_packet_time_ms_, last_update_ms_, the inter-arrival filter, the
\* estimator, the detector and the rate loop as they were, and starts no
\* IncomingPacketInfo.
C1_MissingAbsSendTimeChangesNothing ==
  [][Len(warnings_') > Len(warnings_)
       => /\ UNCHANGED estimator_vars
          /\ observer_' = observer_
          /\ pc' = pc /\ call' = call /\ crit_' = crit_]_vars

\* Such a packet was dropped when streams were active and the estimate valid.
C1_DroppedWithStateAtStake ==
  \E i \in 1..Len(warnings_) :
     warnings_[i].valid /\ warnings_[i].streams # {}

\* C2: every OnReceiveBitrateChanged call is made with crit_ free and with
\* the SSRC set and the target bitrate that the locked section of the same
\* IncomingPacketInfo call computed, whatever the configuration thread did
\* between the unlock and the callback.
C2_CallbackOutsideLockWithLockedSnapshot ==
  \A i \in Calls :
     /\ observer_[i].crit = "free"
     /\ observer_[i].ssrcs = observer_[i].locked_ssrcs
     /\ observer_[i].bitrate_bps = observer_[i].locked_target_bps

\* A callback made after RemoveStream changed the map behind the snapshot.
C2_MapChangedBeforeCallback ==
  \E i \in Calls : observer_[i].map # observer_[i].ssrcs

\* C3 as stated: no member is ever used without crit_ held.
C3_EveryAccessUnderLock == unguarded_ = {}

\* C3: the SSRC map, the probe list, the inter-arrival filter, the
\* estimator, the detector and the rate loop are used only with crit_ held,
\* by packet processing and by the four entry points of the configuration
\* thread; the only members used without it are the rate counter and
\* first_packet_time_ms_ (before the lock is taken) and last_update_ms_
\* (after it is released).
C3_SharedMembersUnderLock ==
  unguarded_ \subseteq
    {"incoming_bitrate_", "first_packet_time_ms_", "last_update_ms_"}

\* A packet went through all of IncomingPacketInfo, callback included, and
\* the configuration thread made a call.
C3_PacketAndConfigCallDone ==
  /\ unguarded_ =
       {"incoming_bitrate_", "first_packet_time_ms_", "last_update_ms_"}
  /\ config_calls > 0
  /\ observer_ # <<>>

\* C10 as stated: the bitrate of a callback is 0 exactly when its snapshot
\* is empty, and callbacks after the set has emptied carry 0.
C10_ZeroIffEmptyAndZeroAfterEmptied ==
  \A i \in Calls :
     /\ (observer_[i].bitrate_bps = 0) <=> (observer_[i].ssrcs = {})
     /\ observer_[i].emptied => observer_[i].bitrate_bps = 0

\* C10: the snapshot of every callback holds the SSRC of the packet being
\* processed, so it is never empty, and the bitrate is the target the rate
\* loop returned for that packet, also in the callbacks that follow the
\* emptying of the set.
C10_SnapshotHoldsPacketSsrc ==
  \A i \in Calls :
     /\ observer_[i].ssrc \in observer_[i].ssrcs
     /\ observer_[i].bitrate_bps = observer_[i].locked_target_bps

\* A callback after the set had emptied.
C10_CallbackAfterEmptied ==
  \E i \in Calls : observer_[i].emptied /\ observer_[i].bitrate_bps # 0

\* C8 as stated: a LatestEstimate call never lists an SSRC whose last packet
\* is more than kStreamTimeOutMs before the call.
C8_SilentSsrcNotListedAtCall ==
  estimate_.ret =>
    \A e \in estimate_.entries :
       estimate_.at_ms - e[2] > kStreamTimeOutMs => e[1] \notin estimate_.ssrcs

\* C8: streams are timed out only while a packet is processed, so what
\* LatestEstimate lists are SSRCs whose last packet is at most
\* kStreamTimeOutMs before the packet processed last; an SSRC silent for
\* longer leaves the list once a later packet has been processed.
C8_SilentSsrcNotListedAfterLaterPacket ==
  estimate_.ret =>
    \A e \in estimate_.entries :
       /\ e[1] \in estimate_.ssrcs
       /\ estimate_.processed_ms - e[2] <= kStreamTimeOutMs

\* LatestEstimate was the only call of the configuration thread, and an
\* SSRC that an earlier callback listed is gone from its list.
C8_TimedOutSsrcLeftList ==
  /\ estimate_.ret
  /\ config_calls = 1
  /\ \E i \in Calls : observer_[i].ssrcs \ estimate_.ssrcs # {}

\* C9: LatestEstimate returns false and leaves both outputs unwritten when
\* the rate loop has no valid estimate; otherwise it returns true with the
\* keys of the SSRC map, and with 0 if there are none and the latest
\* estimate of the rate loop if there are; it changes no member.
C9_LatestEstimateContract ==
  [][estimate_'.calls # estimate_.calls
       => /\ UNCHANGED estimator_vars
          /\ IF ~ValidEstimate(remote_rate_)
               THEN /\ ~estimate_'.ret
                    /\ estimate_'.ssrcs = Unwritten.ssrcs
                    /\ estimate_'.bitrate_bps = Unwritten.bitrate_bps
               ELSE /\ estimate_'.ret
                    /\ estimate_'.ssrcs = Keys(ssrcs_)
                    /\ estimate_'.bitrate_bps =
                         IF Keys(ssrcs_) = {} THEN 0
                         ELSE AimdLatestEstimate(remote_rate_)]_vars

\* LatestEstimate was called with a valid estimate and an empty map.
C9_ValidEstimateNoStreams ==
  /\ estimate_.ret
  /\ estimate_.ssrcs = {}
  /\ estimate_.bitrate_bps = 0
  /\ AimdLatestEstimate(remote_rate_) > 0

\* C4 as stated: the probe list never holds more than kMaxProbePackets
\* entries.
C4_ProbeListAtMostFifteen == Len(probes_) <= kMaxProbePackets

\* The packets so far are one run of probes of one cluster, all in the probe
\* list, each sent and received at least 1 ms after the one before.
InitialProbeRun(n) ==
  /\ pc = "idle"
  /\ packets = n
  /\ Len(probes_) = n
  /\ \A i \in 2..n :
       /\ probes_[i].cluster_id = probes_[1].cluster_id
       /\ probes_[i].send_time_ms - probes_[i - 1].send_time_ms >= 1
       /\ probes_[i].recv_time_ms - probes_[i - 1].recv_time_ms >= 1

\* The sums of the send deltas, of the receive deltas and of the sizes of
\* the packets after the first.
RunSendSum == probes_[Len(probes_)].send_time_ms - probes_[1].send_time_ms
RunRecvSum == probes_[Len(probes_)].recv_time_ms - probes_[1].recv_time_ms
RECURSIVE RunSizeSum(_)
RunSizeSum(i) ==
  IF i > Len(probes_) THEN 0 ELSE probes_[i].payload_size + RunSizeSum(i + 1)

\* min(mean_size*8*1000/mean_send_delta, mean_size*8*1000/mean_recv_delta)
RunBitrateBps ==
  LET count == Len(probes_) - 1
      mean_size == RunSizeSum(2) \div count
  IN Min((mean_size * 8 * 1000 * count) \div RunSendSum,
         (mean_size * 8 * 1000 * count) \div RunRecvSum)

\* The first callback came on packet n and carried the bitrate of the run.
FiredOn(n) ==
  /\ Len(observer_) = 1
  /\ observer_[1].packet = n
  /\ observer_[1].set_estimate
  /\ observer_[1].probe_bitrate_bps = RunBitrateBps

\* C5 as stated: on the 4th packet of such a run whose mean receive delta
\* is at most 2 ms above its mean send delta the observer fires.
C5_FiresOnFourthProbe ==
  (InitialProbeRun(4) /\ RunRecvSum - RunSendSum <= 2 * 3) => FiredOn(4)

\* C5: no cluster forms and nothing is seeded during the first four
\* packets of such a run.  On the 5th, the first with kMinClusterSize deltas
\* behind it, the cluster is eligible exactly when the mean receive delta is
\* at most 2 ms above and at most 5 ms below the mean send delta; the probe
\* analysis then seeds the estimate with
\* min(mean_size*8*1000/mean_send_delta, mean_size*8*1000/mean_recv_delta),
\* the rate loop runs for that packet, and with the estimate valid the
\* observer fires on that packet, for the first time.
C5_FiresOnFifthProbe ==
  /\ \A n \in 1..4 :
       InitialProbeRun(n) =>
         /\ locked_.analysis.ran
         /\ locked_.analysis.clusters = <<>>
         /\ ~locked_.analysis.set_estimate
  /\ InitialProbeRun(5) =>
       IF RunRecvSum - RunSendSum <= 2 * 4 /\ RunSendSum - RunRecvSum <= 5 * 4
         THEN /\ locked_.analysis.set_estimate
              /\ locked_.analysis.probe_bitrate_bps = RunBitrateBps
              /\ locked_.updated
              /\ ValidEstimate(remote_rate_) => FiredOn(5)
         ELSE /\ locked_.analysis.ran
              /\ ~locked_.analysis.set_estimate

\* Five 1200-byte probes sent 5 ms apart and received 6 ms apart gave a
\* callback with 1,600,000 bps.
C5_FiveProbesGive1600000 ==
  /\ InitialProbeRun(5)
  /\ \A i \in 1..5 : probes_[i].payload_size = 1200
  /\ RunSendSum = 20
  /\ \A i \in 2..5 : probes_[i].recv_time_ms - probes_[i - 1].recv_time_ms = 6
  /\ FiredOn(5)
  /\ observer_[1].bitrate_bps = 1600000

\* C6: the probe analysis calls SetEstimate, and returns kBitrateUpdated,
\* exactly when there is a best cluster and either no valid estimate or a
\* probe bitrate min(send_bps, recv_bps) strictly above the estimate; the
\* bitrate it passes to SetEstimate is that probe bitrate, and when it does
\* not call SetEstimate it leaves the estimate as it found it, so the probe
\* analysis of a packet never lowers a valid estimate.
C6_ProbeSeedsOnlyUpwards ==
  LET a == locked_.analysis
      improving == /\ a.best_it # 0
                   /\ \/ ~a.valid_before /\ a.probe_bitrate_bps > 0
                      \/ a.valid_before
                           /\ a.probe_bitrate_bps > a.estimate_before
  IN a.ran =>
       /\ a.set_estimate <=> improving
       /\ (a.result = kBitrateUpdated) <=> improving
       /\ a.best_it # 0 =>
            a.probe_bitrate_bps =
              Min(GetSendBitrateBps(a.clusters[a.best_it]),
                  GetRecvBitrateBps(a.clusters[a.best_it]))
       /\ (a.valid_before /\ a.set_estimate)
            => a.probe_bitrate_bps > a.estimate_before
       /\ ~a.set_estimate => /\ a.valid_after = a.valid_before
                             /\ a.estimate_after = a.estimate_before

\* A probe packet met a valid estimate and a best cluster that was not above
\* it, and left the estimate alone.
C6_ProbeNotAboveEstimate ==
  LET a == locked_.analysis
  IN /\ a.ran /\ a.valid_before /\ a.best_it # 0
     /\ a.probe_bitrate_bps <= a.estimate_before
     /\ a.result = kNoUpdate

C11_TimeoutOfOneStreamResets ==
  (locked_.timed_out # {} /\ locked_.ssrc \in Keys(locked_.timed))
    => /\ locked_.ia0 = NewInterArrival
       /\ locked_.est0 = NewOveruseEstimator

\* C11: a packet of a stream that keeps sending, on which another stream is
\* timed out, leaves the inter-arrival filter and the estimator as they were;
\* a packet on which every stream is timed out resets both.
C11_TimeoutOfOneStreamKeepsFilters ==
  /\ (locked_.timed_out # {} /\ locked_.ssrc \in Keys(locked_.timed))
       => /\ locked_.ia0 = locked_.ia_before
          /\ locked_.est0 = locked_.est_before
          /\ locked_.ia0 # NewInterArrival
  /\ (locked_.timed_out # {} /\ locked_.timed = {})
       => /\ locked_.ia0 = NewInterArrival
          /\ locked_.est0 = NewOveruseEstimator

\* One stream was timed out by a packet of the other, which had sent before.
C11_OneTimedOutOtherAlive ==
  /\ pc = "unlock"
  /\ locked_.timed_out = {1}
  /\ locked_.ssrc = 2
  /\ Keys(locked_.timed) = {2}
  /\ locked_.ia_before.has_prev \/ locked_.ia_before.has_current

\* C17: the locked section of a packet that arrives at now removes exactly
\* the SSRCs with now - last_seen > 2000 and then records the packet's SSRC
\* with last_seen = now; afterwards the map holds the packet's SSRC and every
\* entry has now - last_seen <= 2000.
C17_TimeoutThenRecord ==
  [][(pc = "lock" /\ pc' = "unlock")
       => /\ ssrcs_' =
               {e \in ssrcs_ : /\ e[1] # call.ssrc
                               /\ call.arrival_time_ms - e[2] <= 2000}
                 \cup {<<call.ssrc, call.arrival_time_ms>>}
          /\ locked_'.timed_out =
               {e[1] : e \in {f \in ssrcs_ :
                                call.arrival_time_ms - f[2] > 2000}}
          /\ call.ssrc \in Keys(ssrcs_')
          /\ \A e \in ssrcs_' : call.arrival_time_ms - e[2] <= 2000]_vars

\* A stream last seen exactly 2000 ms ago was kept by a packet of the other.
C17_KeptAtExactlyTheTimeout ==
  /\ pc = "unlock"
  /\ \E e \in ssrcs_ : e[1] # locked_.ssrc /\ locked_.now_ms - e[2] = 2000

\* C18: the locked section of a packet leaves the DCHECKs of the two
\* pointers satisfied; it reconstructs the inter-arrival filter and the
\* estimator when no SSRC is left after the timeout removal and keeps both
\* objects otherwise; it leaves first_packet_time_ms_, the rate counter and
\* last_update_ms_ as they were; and on a packet that resets, the detector
\* is left as it was, the probe list too unless the packet is a probe, the
\* rate loop too unless an update is due, and a valid estimate stays valid.
C18_ResetIffMapEmptyAndFrame ==
  [][(pc = "lock" /\ pc' # "lock")
       => LET kept == {e \in ssrcs_ :
                         call.arrival_time_ms - e[2] <= kStreamTimeOutMs}
          IN /\ pc' = "unlock"
             /\ kept = {} => /\ locked_'.ia0 = NewInterArrival
                             /\ locked_'.est0 = NewOveruseEstimator
             /\ kept # {} => /\ locked_'.ia0 = inter_arrival_
                             /\ locked_'.est0 = estimator_
             /\ UNCHANGED <<first_packet_time_ms_, incoming_bitrate_,
                            last_update_ms_>>
             /\ kept = {} =>
                  /\ detector_' = detector_
                  /\ ~locked_'.analysis.ran => probes_' = probes_
                  /\ ~locked_'.updated => remote_rate_' = remote_rate_
                  /\ ValidEstimate(remote_rate_)
                       => ValidEstimate(remote_rate_')]_vars

\* A packet found no SSRC left, after RemoveStream or after a silence, and
\* the two objects it replaced had seen packets.
C18_ResetAfterStreamsLeft ==
  /\ pc = "unlock"
  /\ locked_.timed = {}
  /\ locked_.ia_before # NULL
  /\ locked_.ia_before.has_current
  /\ locked_.ia0 = NewInterArrival
  /\ first_packet_time_ms_ < locked_.now_ms

\* C12 as stated: every bitrate passed to the observer is at least the
\* minimum bitrate configured at the time of the callback.
C12_CallbackAtLeastConfiguredMin ==
  \A i \in Calls : observer_[i].bitrate_bps >= observer_[i].min_bitrate_bps

\* C12: every bitrate passed to the observer is at least the minimum bitrate
\* that was configured when the locked section of its packet ran; and as
\* long as crit_ is free, a valid estimate of the rate loop is at least the
\* minimum bitrate configured.
C12_CallbackAtLeastMinUnderLock ==
  /\ \A i \in Calls :
       observer_[i].bitrate_bps >= observer_[i].locked_min_bitrate_bps
  /\ ValidEstimate(remote_rate_)
       => AimdLatestEstimate(remote_rate_) >= remote_rate_.min_bitrate_bps

\* SetMinBitrate raised the minimum between the locked section of a packet
\* and its callback.
C12_MinRaisedBeforeCallback ==
  \E i \in Calls :
     /\ observer_[i].min_bitrate_bps > observer_[i].locked_min_bitrate_bps
     /\ observer_[i].bitrate_bps >= observer_[i].locked_min_bitrate_bps

\* C13 as stated: when the second run, whose 24-bit send times start at
\* 2^24 - 10, has been fed the packets of the first, whose send times start
\* at 0, its observer has been given exactly what the observer of the first
\* run was given.
C13_WrapAroundNeutral ==
  (wrap_.second /\ pc = "idle" /\ wrap_.fed = wrap_.reference_fed)
    => CallbackLog(observer_) = wrap_.reference_log

\* The element of the feedback vector whose iteration is under way.
FeedbackElement == feedback_.vector[feedback_.next]

\* C14 as stated: the locked section of an element's iteration records the
\* element's own SSRC in the SSRC map with the element's arrival time.
C14_BatchRecordsElementSsrc ==
  (pc = "unlock" /\ feedback_.next >= 1)
    => <<FeedbackElement.ssrc, FeedbackElement.arrival_time_ms>> \in ssrcs_

\* C14: the batch entry point takes the elements of the vector in order, one
\* per iteration, each through IncomingPacketInfo with the element's arrival
\* time, the 24-bit conversion of its send time, its payload size and its
\* probe cluster id, and with SSRC 0; the locked section of each iteration
\* records SSRC 0, and no other SSRC, with the element's arrival time.
C14_BatchInOrderUnderSsrcZero ==
  [][/\ (pc = "idle" /\ pc' = "lock")
          => /\ feedback_'.next =
                  IF feedback_.next < Len(feedback_.vector)
                    THEN feedback_.next + 1 ELSE 1
             /\ feedback_.next < Len(feedback_.vector)
                  => feedback_'.vector = feedback_.vector
             /\ call' =
                  [arrival_time_ms |->
                     feedback_'.vector[feedback_'.next].arrival_time_ms,
                   timestamp |->
                     Timestamp(ConvertMsTo24Bits(
                       feedback_'.vector[feedback_'.next].send_time_ms)),
                   payload_size |->
                     feedback_'.vector[feedback_'.next].payload_size,
                   ssrc |-> 0,
                   probe_cluster_id |->
                     feedback_'.vector[feedback_'.next].probe_cluster_id,
                   update_estimate |-> FALSE, target_bitrate_bps |-> 0,
                   ssrcs |-> {}]
     /\ (pc = "lock" /\ pc' = "unlock")
          => /\ <<0, FeedbackElement.arrival_time_ms>> \in ssrcs_'
             /\ Keys(ssrcs_') = {0}]_vars

\* The second element of a vector, which names SSRC 2, went through its
\* locked section.
C14_SecondElementOfOtherSsrc ==
  /\ pc = "unlock"
  /\ feedback_.next = 2
  /\ FeedbackElement.ssrc = 2
  /\ feedback_.vector[1].ssrc = 1
  /\ <<0, FeedbackElement.arrival_time_ms>> \in ssrcs_


(***************************************************************************)
(* The extension block: what a wrong length costs, and which lengths are   *)
(* taken                                                                   *)
(***************************************************************************)
Element(i) == parser_.block.elements[i]
Offset(i) == ElementOffset(parser_.block.elements, i)
Mapped(i) == GetType(Element(i).id) # kInvalidType
\* The data of element i lies within the block.
Whole(i) == Offset(i) + Element(i).len + 1 <= Len(parser_.bytes)
WellFormed(i) ==
  /\ Mapped(i)
  /\ Whole(i)
  /\ LengthAccepted(GetType(Element(i).id), Element(i).len)
WrongLength(i) ==
  /\ Mapped(i)
  /\ Whole(i)
  /\ ~LengthAccepted(GetType(Element(i).id), Element(i).len)
NoTerminatorBetween(i, j) ==
  \A k \in DOMAIN parser_.block.elements : i < k /\ k < j => Element(k).id # 15
\* The header extension that the elements before element i give.
ExtensionBefore(i) ==
  ParseOneByteExtensionHeader(
    BlockBytes([elements |-> SubSeq(parser_.block.elements, 1, i - 1),
                cut |-> FALSE])).extension

\* C15 as stated: when an element of a known type carries a wrong length,
\* every well-formed element that follows it in the block is still parsed
\* into the header.
C15_WrongLengthAbandonsOnlyThatElement ==
  parser_.parsed =>
    \A i, j \in DOMAIN parser_.block.elements :
      (/\ i < j
       /\ Offset(i) \in parser_.parse.visited
       /\ WrongLength(i)
       /\ WellFormed(j)
       /\ NoTerminatorBetween(i, j))
        => Offset(j) \in parser_.parse.applied

\* C15: when the parser reaches an element of a known type that carries a
\* wrong length, it returns there: the header holds what the elements before
\* it gave, and no element after it is read or parsed into the header.
C15_WrongLengthEndsTheBlock ==
  parser_.parsed =>
    \A i \in DOMAIN parser_.block.elements :
      (Offset(i) \in parser_.parse.visited /\ WrongLength(i))
        => /\ parser_.parse.ended = "length"
           /\ parser_.parse.stopped_at = Offset(i)
           /\ parser_.parse.extension = ExtensionBefore(i)
           /\ \A j \in DOMAIN parser_.block.elements :
                j >= i => Offset(j) \notin parser_.parse.applied
           /\ \A j \in DOMAIN parser_.block.elements :
                j > i => Offset(j) \notin parser_.parse.visited

\* A transmission time offset with length field 1 followed by a whole
\* absolute send time with length field 2, which the header does not get.
C15_SendTimeAfterWrongLengthLost ==
  /\ parser_.parsed
  /\ Len(parser_.block.elements) >= 2
  /\ Element(1) = [id |-> 1, len |-> 1]
  /\ Element(2) = [id |-> 3, len |-> 2]
  /\ WrongLength(1)
  /\ WellFormed(2)
  /\ ~parser_.parse.extension.hasAbsoluteSendTime
  /\ parser_.parse.ended = "length"

\* The length field each extension is described with: 2, 0, 2, 0, 1, 2, and
\* 0 or 2 for frame marking.
SpecifiedLength(type, len) ==
  IF type \in {kRtpExtensionTransmissionTimeOffset,
               kRtpExtensionAbsoluteSendTime, kRtpExtensionPlayoutDelay}
    THEN len = 2
  ELSE IF type \in {kRtpExtensionAudioLevel, kRtpExtensionVideoRotation}
    THEN len = 0
  ELSE IF type = kRtpExtensionTransportSequenceNumber THEN len = 1
  ELSE len = 0 \/ len = 2


\* C16 as stated: an element of a mapped type that the parser reaches is
\* applied exactly when its length field has the specified value, frame
\* marking with 0 or 2.
C16_AppliedIffSpecifiedLength ==
  parser_.parsed =>
    \A i \in DOMAIN parser_.block.elements :
      (Offset(i) \in parser_.parse.visited /\ Mapped(i) /\ Whole(i))
        => (Offset(i) \in parser_.parse.applied
              <=> SpecifiedLength(GetType(Element(i).id), Element(i).len))


(***************************************************************************)
(* The probe gate                                                          *)
(***************************************************************************)
\* The gate as the members stand when the locked section begins.
GateOpen ==
  /\ call.probe_cluster_id # kNotAProbe
  /\ call.payload_size > 200
  /\ (~ValidEstimate(remote_rate_)
       \/ call.arrival_time_ms - first_packet_time_ms_ < 2000)

\* C19: the locked section of a packet appends the packet to the probe list
\* and analyses the list if and only if its probe cluster id is not
\* kNotAProbe, its payload is larger than 200 bytes, and AIMD has no valid
\* estimate or less than 2000 ms have passed since the first packet; a
\* packet that fails the gate leaves the probe list and its count alone and
\* seeds nothing, also when every SSRC has just timed out; and
\* first_packet_time_ms_, once set, never changes.
C19_ProbeGate ==
  [][/\ (first_packet_time_ms_ # -1
           => first_packet_time_ms_' = first_packet_time_ms_)
     /\ (pc = "lock" /\ pc' = "unlock")
          => /\ locked_'.analysis.ran <=> GateOpen
             /\ GateOpen
                  => /\ total_probes_received_' = total_probes_received_ + 1
                     /\ probes_' \in
                          {Append(probes_,
                                  Probe(SendTimeMs(call.timestamp),
                                        call.arrival_time_ms,
                                        call.payload_size,
                                        call.probe_cluster_id)),
                           <<>>}
             /\ ~GateOpen
                  => /\ total_probes_received_' = total_probes_received_
                     /\ probes_' = probes_
                     /\ ~locked_'.analysis.set_estimate
                     /\ locked_'.analysis.result = kNoUpdate
             /\ (/\ ValidEstimate(remote_rate_)
                 /\ call.arrival_time_ms - first_packet_time_ms_ >= 2000)
                  => /\ probes_' = probes_
                     /\ ~locked_'.analysis.set_estimate]_vars

\* A large packet of a probe cluster that arrives when the estimate is valid,
\* 2000 ms or more after the first packet and after every SSRC has timed
\* out, and is not analysed.
C19_ProbeRefusedAfterAllTimedOut ==
  /\ pc = "unlock"
  /\ call.probe_cluster_id # kNotAProbe
  /\ call.payload_size > 200
  /\ locked_.analysis.valid_before
  /\ call.arrival_time_ms - first_packet_time_ms_ >= 2000
  /\ locked_.timed_out # {}
  /\ locked_.timed = {}
  /\ ~locked_.analysis.ran
  /\ total_probes_received_ > 0


(***************************************************************************)
(* The update decision                                                     *)
(***************************************************************************)
\* The three reasons for an update, as the members stand when the locked
\* section begins and as the section leaves the detector.
ProbeUpdated == locked_'.analysis.result = kBitrateUpdated
PeriodicUpdate ==
  \/ last_update_ms_ = -1
  \/ call.arrival_time_ms - last_update_ms_
       > GetFeedbackInterval(remote_rate_)
OveruseUpdate ==
  /\ detector_'.state = kBwOverusing
  /\ Rate(incoming_bitrate_, call.arrival_time_ms) # NoRate
  /\ TimeToReduceFurther(remote_rate_, call.arrival_time_ms,
                         Rate(incoming_bitrate_, call.arrival_time_ms))

\* C20: for a processed packet the AIMD update (Update followed by
\* UpdateBandwidthEstimate) runs if and only if the probe analysis returned
\* kBitrateUpdated for this packet, or last_update_ms_ is -1 or now_ms -
\* last_update_ms_ is strictly greater than the AIMD feedback interval, or
\* the detector is overusing, the incoming rate is known and
\* TimeToReduceFurther(now_ms, rate) holds.
C20_UpdateIffDecision ==
  [][(pc = "lock" /\ pc' = "unlock")
       => /\ locked_'.updated
               <=> (ProbeUpdated \/ PeriodicUpdate \/ OveruseUpdate)
          /\ locked_'.updated
               => remote_rate_'.input =
                    [bw_state |-> detector_'.state,
                     incoming_bitrate |->
                       Rate(incoming_bitrate_, call.arrival_time_ms)]
          /\ ~locked_'.updated
               => /\ remote_rate_' = remote_rate_
                  /\ ~call'.update_estimate
                  /\ call'.target_bitrate_bps = 0]_vars

\* An update that only the overuse made: no probe result, a callback
\* before, and exactly the feedback interval since it.
C20_UpdateOnOveruseAlone ==
  /\ pc = "unlock"
  /\ locked_.updated
  /\ locked_.analysis.result # kBitrateUpdated
  /\ last_update_ms_ # -1
  /\ locked_.now_ms - last_update_ms_ = locked_.feedback_interval
  /\ locked_.bw_state = kBwOverusing
  /\ locked_.incoming_rate # NoRate


(***************************************************************************)
(* The callback and last_update_ms_                                        *)
(***************************************************************************)
\* C21: the observer is invoked for a packet if and only if the AIMD update
\* ran for that packet and AIMD has a valid estimate afterwards;
\* last_update_ms_ is written only in that case, with the packet's arrival
\* time; so while AIMD has no valid estimate there has been no callback,
\* last_update_ms_ is -1 and the update runs on every packet.
C21_CallbackIffUpdatedAndValid ==
  [][/\ (pc = "lock" /\ pc' = "unlock")
          => /\ call'.update_estimate
                  <=> (locked_'.updated /\ ValidEstimate(remote_rate_'))
             /\ ~ValidEstimate(remote_rate_) => locked_'.updated
     /\ (pc = "notify" /\ pc' = "idle")
          => /\ call.update_estimate
                  => /\ Len(observer_') = Len(observer_) + 1
                     /\ observer_'[Len(observer_')].now_ms
                          = call.arrival_time_ms
                     /\ last_update_ms_' = call.arrival_time_ms
             /\ ~call.update_estimate
                  => /\ observer_' = observer_
                     /\ last_update_ms_' = last_update_ms_
     /\ ~(pc = "notify" /\ pc' = "idle")
          => /\ observer_' = observer_
             /\ last_update_ms_' = last_update_ms_
     /\ ~ValidEstimate(remote_rate_)
          => /\ observer_ = <<>>
             /\ last_update_ms_ = -1]_vars

\* A second packet done, with the update run for it, while AIMD still has
\* no valid estimate: no callback, and last_update_ms_ still -1.
C21_UpdatedWithoutValidEstimate ==
  /\ pc = "idle"
  /\ packets >= 2
  /\ locked_.now_ms = fed_ms
  /\ locked_.updated
  /\ ~ValidEstimate(remote_rate_)
  /\ observer_ = <<>>
  /\ last_update_ms_ = -1


(***************************************************************************)
(* The clusters of a probe list and the best of them                       *)
(***************************************************************************)
Emitted == analysis_.pr.clusters
\* A cluster whose mean send or receive delta is exactly 0.
ZeroMean(i) == Emitted[i].send_sum = 0 \/ Emitted[i].recv_sum = 0
\* num_above_min_delta > count/2, recv_mean - send_mean <= 2.0 and
\* send_mean - recv_mean <= 5.0, the means being the sums over count.
Qualifies(i) ==
  /\ Emitted[i].num_above_min_delta > Emitted[i].count \div 2
  /\ Emitted[i].recv_sum - Emitted[i].send_sum <= 2 * Emitted[i].count
  /\ Emitted[i].send_sum - Emitted[i].recv_sum <= 5 * Emitted[i].count
MinBitrateBps(i) ==
  Min(GetSendBitrateBps(Emitted[i]), GetRecvBitrateBps(Emitted[i]))
\* The first cluster that fails the test, or the end of the list.
FirstFailing ==
  IF \E i \in DOMAIN Emitted : ~ZeroMean(i) /\ ~Qualifies(i)
    THEN CHOOSE i \in DOMAIN Emitted :
           /\ ~ZeroMean(i) /\ ~Qualifies(i)
           /\ \A j \in 1..(i - 1) : ZeroMean(j) \/ Qualifies(j)
    ELSE Len(Emitted) + 1
Candidates ==
  {i \in 1..(FirstFailing - 1) : ~ZeroMean(i) /\ MinBitrateBps(i) > 0}

\* C22: the best cluster is the first of the highest positive min(send_bps,
\* recv_bps) among the clusters before the first one that fails the
\* qualification test, clusters of a zero mean send or receive delta left
\* out; no cluster at or after the failing one is selected, and when there
\* is no such cluster there is no best cluster and no bitrate update.
C22_BestIsFirstHighestBeforeFailing ==
  analysis_.ran =>
    /\ analysis_.pr.best_it < FirstFailing
    /\ Candidates = {}
         => /\ analysis_.pr.best_it = 0
            /\ analysis_.pr.result = kNoUpdate
            /\ analysis_.pr.remote_rate = analysis_.rc
    /\ Candidates # {}
         => /\ analysis_.pr.best_it \in Candidates
            /\ \A i \in Candidates :
                 /\ MinBitrateBps(i) <= MinBitrateBps(analysis_.pr.best_it)
                 /\ MinBitrateBps(i) = MinBitrateBps(analysis_.pr.best_it)
                      => analysis_.pr.best_it <= i

\* Three clusters: the first qualifies, the second fails the test, and the
\* third, which qualifies with a higher bitrate, is not selected.
C22_HigherClusterAfterFailingOne ==
  /\ analysis_.ran
  /\ Len(Emitted) = 3
  /\ ~ZeroMean(1) /\ Qualifies(1)
  /\ FirstFailing = 2
  /\ ~ZeroMean(3) /\ Qualifies(3)
  /\ MinBitrateBps(3) > MinBitrateBps(1)
  /\ analysis_.pr.best_it = 1


(***************************************************************************)
(* The probe list after ProcessClusters                                    *)
(***************************************************************************)
\* C23: when the analysis of a packet does not update the bitrate, the probe
\* list afterwards is empty if at least 3 clusters were found, the list
\* without its oldest entry if no cluster was found and the list holds at
\* least 15 entries, and else the list as it was with the new probe; when
\* the bitrate is updated, no entry is removed.
C23_ProbeListAfterAnalysis ==
  analysis_.ran =>
    /\ analysis_.pr.result = kNoUpdate
         => analysis_.pr.probes =
              IF Len(Emitted) >= 3 THEN <<>>
              ELSE IF Emitted = <<>> /\ Len(analysis_.probes) >= 15
                THEN SubSeq(analysis_.probes, 2, Len(analysis_.probes))
              ELSE analysis_.probes
    /\ analysis_.pr.result = kBitrateUpdated
         => analysis_.pr.probes = analysis_.probes

\* Fifteen probes without a cluster: the oldest is dropped.
C23_OldestDroppedAtFifteen ==
  /\ analysis_.ran
  /\ Emitted = <<>>
  /\ Len(analysis_.probes) = 15
  /\ analysis_.pr.result = kNoUpdate
  /\ Len(analysis_.pr.probes) = 14
  /\ analysis_.pr.probes[1] = analysis_.probes[2]


(***************************************************************************)
(* The counters of an emitted cluster                                      *)
(***************************************************************************)
\* C24 as stated: every cluster emitted by ComputeClusters has count >= 4
\* and num_above_min_delta <= count, a delta being counted in
\* num_above_min_delta only in the cluster whose count and sums it enters.
C24_AboveMinDeltaWithinCount ==
  analysis_.ran =>
    \A i \in DOMAIN Emitted :
      /\ Emitted[i].count >= 4
      /\ Emitted[i].num_above_min_delta <= Emitted[i].count


(***************************************************************************)
(* The SSRC list of a callback                                             *)
(***************************************************************************)
\* C25: the SSRC list passed to every observer callback is non-empty and
\* contains the SSRC of the packet that triggered the callback: the list is
\* the snapshot of the locked section of that packet, taken after the SSRC
\* was recorded in the map, whatever has been removed from the map since.
C25_CallbackListsPacketSsrc ==
  /\ \A i \in DOMAIN observer_ :
       /\ observer_[i].ssrcs # {}
       /\ observer_[i].ssrc \in observer_[i].ssrcs
       /\ observer_[i].ssrcs = observer_[i].locked_ssrcs
  /\ pc \in {"unlock", "notify"} /\ call.update_estimate
       => /\ call.ssrc \in call.ssrcs
          /\ call.ssrcs = locked_.ssrcs

\* A callback for a packet whose SSRC RemoveStream had erased from the map
\* by the time the callback was made.
C25_CallbackAfterStreamRemoved ==
  /\ observer_ # <<>>
  /\ observer_[Len(observer_)].ssrc \notin observer_[Len(observer_)].map
  /\ observer_[Len(observer_)].ssrc \in observer_[Len(observer_)].ssrcs


(***************************************************************************)
(* inter_arrival_ and estimator_ where they are used                       *)
(***************************************************************************)
\* C26: inter_arrival_ and estimator_, null after construction, are not null
\* where packet processing checks or dereferences them, whatever calls of
\* RemoveStream, OnRttUpdate, SetMinBitrate and LatestEstimate come between
\* the packets: neither RTC_DCHECK fails, the locked section leaves both
\* set, and while either is null the map is empty, so that TimeoutStreams
\* sets both before the next use.
C26_FiltersSetWhereUsed ==
  /\ pc # "dcheck_failed"
  /\ pc \in {"unlock", "notify"}
       => /\ inter_arrival_ # NULL
          /\ estimator_ # NULL
          /\ locked_.ia0 # NULL
          /\ locked_.est0 # NULL
  /\ (inter_arrival_ = NULL \/ estimator_ = NULL) => ssrcs_ = {}

\* The first packet's locked section done after a call of the configuration
\* thread: both were null when it began, and both are set.
C26_FirstPacketAfterConfigCall ==
  /\ pc = "unlock"
  /\ packets = 1
  /\ config_calls >= 1
  /\ locked_.ia_before = NULL
  /\ locked_.est_before = NULL
  /\ inter_arrival_ # NULL
  /\ estimator_ # NULL

(***************************************************************************)
(* The header parser on whole buffers                                      *)
(***************************************************************************)
\* The offsets of the bytes of the buffer parsed.
BufferOffsets == 0..(Len(packet_.data) - 1)

\* The bits and fields of the buffer parsed, read from its bytes: the X
\* bit, CC, and the length field of the extension header in words.
BufferX == (packet_.data[1] \div 16) % 2 = 1
BufferCC == packet_.data[1] % 16
BufferXLen ==
  packet_.data[12 + 4 * BufferCC + 3] * 256
    + packet_.data[12 + 4 * BufferCC + 4]

\* C27: for every buffer and extension map, Parse, ParseRtcp, RTCP and the
\* one-byte extension parser read only bytes inside [begin, end) of the
\* buffer, the extension parser only bytes inside the declared extension
\* block, and Parse returns true only if 12 + 4*CC + (4 + 4*XLen when the X
\* bit is set) + paddingLength <= the length of the buffer.
C27_ReadsInsideBuffer ==
  packet_.parsed =>
    /\ packet_.is_rtcp.reads \subseteq BufferOffsets
    /\ packet_.rtcp.reads \subseteq BufferOffsets
    /\ packet_.rtp.reads \subseteq BufferOffsets
    /\ packet_.rtp.extension_reads \subseteq BufferOffsets
    /\ packet_.rtp.extension_reads \subseteq
         packet_.rtp.block_begin
           ..(packet_.rtp.block_begin + packet_.rtp.block_length - 1)
    /\ packet_.rtp.ret
         => 12 + 4 * BufferCC
              + (IF BufferX THEN 4 + 4 * BufferXLen ELSE 0)
              + packet_.rtp.header.paddingLength
              <= Len(packet_.data)

\* C27 witness: a packet with a CSRC, padding and a block of two words that
\* holds a transport sequence number is accepted; header, block and padding
\* fill the buffer to its last byte.
C27_FullPacketAccepted ==
  /\ packet_.parsed
  /\ packet_.rtp.ret
  /\ BufferX
  /\ BufferCC = 1
  /\ BufferXLen = 2
  /\ packet_.rtp.header.paddingLength = 2
  /\ packet_.rtp.header.headerLength + 2 = Len(packet_.data)
  /\ packet_.rtp.header.extension.hasTransportSequenceNumber
  /\ packet_.rtp.extension_reads # {}
  /\ Len(packet_.data) - 1 \in packet_.rtp.reads

\* C28: the header a successful Parse produces depends only on the packet
\* bytes and the extension map, not on what the RTPHeader object held
\* before: whichever object is handed in, the header is the same, and for a
\* packet without extension header hasTransportSequenceNumber is false and
\* the frame marks are cleared.
C28_HeaderFromPacketOnly ==
  (packet_.parsed /\ packet_.rtp.ret) =>
    /\ \A header \in PreviousHeaders :
         Parse(header, packet_.map, packet_.data, 0).header
           = packet_.rtp.header
    /\ ~BufferX
         => /\ ~packet_.rtp.header.extension.hasTransportSequenceNumber
            /\ packet_.rtp.header.extension.frameMarks
                 = NewHeaderExtension.frameMarks

====
